---- MODULE Spec2Model ----
(***************************************************************************)
(* PhoenixCore: the safety gate, the per-action step handlers of the       *)
(* workflow engine, the workflow runner and the workflow validator.        *)
(*                                                                         *)
(* Strings the code parses or compares character by character (tokens,     *)
(* step ids, mount paths, device paths, disk ids, file paths) are          *)
(* sequences of one-character strings; strings the code only passes along  *)
(* (error messages, action names, parameter keys) are TLA+ strings.  An    *)
(* Option<T> is None or Some(x).  File sizes are counted in KiB.           *)
(***************************************************************************)
EXTENDS Integers, Sequences, FiniteSets, TLC

VARIABLES
    \* ---- safety gate (crates/safety) ----
    ctx,            \* SafetyContext {force_mode, confirmation_token}
    is_system_arg,  \* the is_system_disk argument of can_write_to_disk
    decision,       \* NoDecision before the call, then the SafetyDecision
    \* ---- one step handler (crates/workflow-engine, crates/legacy-patcher) ----
    host_os,        \* cfg!(target_os): "windows", "linux" or "macos"
    graph,          \* what build_device_graph returns on this host
    sp,             \* the step's parameter struct (action and *Params fields)
    step_pc,        \* "idle", "ready" (handler not yet called), "done"
    step_result,    \* what the handler returned and what it did on the way
    \* ---- a workflow run (run_workflow_definition[_with_report]) ----
    definition,     \* the WorkflowDefinition: schema_version and steps
    run_pc,         \* "idle", "ready", "running", "reporting", "done"
    started,        \* the indices of the steps started so far, in start order
    results,        \* the Vec<WorkflowStepResult> built so far
    run_err,        \* NoErr or the error the run returned
    parent_report,  \* None, or the parent report bundle written
    entry_point,    \* "plain" (run_workflow_definition) or "with_report"
    last_step,      \* what the step started last returned
    \* ---- validate_workflow_definition called on its own ----
    validation,     \* whether it was called, and the error it returned
    \* ---- a library function called on its own ----
    fn_args,        \* the arguments of the call
    fn_ret,         \* None before the call, then Some(what it returned)
    \* ---- a report bundle on disk (crates/report) ----
    bundle_in,      \* what the bundle is created with: signing key and artifacts
    bundle,         \* the files of reports/<run_id>/: file name -> content
    report_pc,      \* "idle", "start", "created", "create_failed", "verified"
    tamper,         \* None, or what was done to which file after creation
    verify_key,     \* the signing_key_hex verify_report_bundle was called with
    verify_ret,     \* None, then Some(what verify_report_bundle returned)
    \* ---- the `pack run` command (apps/cli) ----
    pack_in,        \* the pack directory and the arguments of `pack run`
    pack_pc,        \* "idle", "load", "check", "resolve", "run", "report", "done"
    pack_started,   \* the workflows started so far, by index
    pack_err,       \* "" or the error `pack run` returned
    pack_report,    \* whether the pack report bundle was written
    \* ---- the legacy patch applied again (crates/legacy-patcher) ----
    patch_in,       \* the installer plist and the parameters of the legacy patch
    plist_file,     \* the plist on disk: its format and its root value
    patch_log,      \* the plist on disk after each application that returned Ok
    \* ---- an ISO mounted as a source (crates/content, windows_impl) ----
    iso_pc,         \* "idle", "start", "opened", "waiting", "mounted", "dropped", "failed"
    iso_letters,    \* the drive letters GetLogicalDrives reports now
    iso_before,     \* the drive letters mount_iso saw before it opened the ISO
    iso_handle,     \* "none", "open" or "closed": the virtual disk handle
    iso_attached,   \* whether the ISO is attached as a virtual disk
    iso_polls,      \* the rounds wait_for_new_drive_letter has slept
    \* ---- crates/imaging chunk loops ----
    io_op,          \* the imaging operation under way
    io_in,          \* its arguments and the bytes the source holds
    io_pc,          \* "idle", "start", "loop" or "done"
    io_plan,        \* the chunks still to process
    io_fed,         \* per processed chunk, the bytes fed to the hasher
    io_calls,       \* the calls of on_progress with their answers
    io_written,     \* bytes written to the target device
    io_ret,         \* None while running, then the result
    \* ---- host-windows prepare_usb_disk ----
    usb_pc,         \* "idle", "start", "partition", "waiting", "format" or "done"
    usb_disk,       \* the number of the disk to prepare
    usb_volumes,    \* the mounted volumes, each a drive letter and its disk
    usb_before,     \* the drive letters seen before partitioning
    usb_polls,      \* the rounds wait_for_new_drive_letter has slept
    usb_letter,     \* the letter wait_for_new_drive_letter returned
    usb_formatted,  \* the volumes format_volume was run on
    usb_ret         \* None while running, then the result

gateVars == <<ctx, is_system_arg, decision>>
stepVars == <<host_os, graph, sp, step_pc, step_result>>
runVars == <<definition, run_pc, started, results, run_err, parent_report, entry_point,
             last_step, validation>>
vars == <<ctx, is_system_arg, decision, host_os, graph, sp, step_pc, step_result,
          definition, run_pc, started, results, run_err, parent_report, entry_point,
          last_step, validation, fn_args, fn_ret,
          bundle_in, bundle, report_pc, tamper, verify_key, verify_ret,
          pack_in, pack_pc, pack_started, pack_err, pack_report,
          patch_in, plist_file, patch_log,
          iso_pc, iso_letters, iso_before, iso_handle, iso_attached, iso_polls,
          io_op, io_in, io_pc, io_plan, io_fed, io_calls, io_written, io_ret,
          usb_pc, usb_disk, usb_volumes, usb_before, usb_polls, usb_letter, usb_formatted, usb_ret>>
fnVars == <<fn_args, fn_ret>>
reportVars == <<bundle_in, bundle, report_pc, tamper, verify_key, verify_ret>>
packVars == <<pack_in, pack_pc, pack_started, pack_err, pack_report>>
patchVars == <<patch_in, plist_file, patch_log>>
mountVars == <<iso_pc, iso_letters, iso_before, iso_handle, iso_attached, iso_polls>>
ioVars == <<io_op, io_in, io_pc, io_plan, io_fed, io_calls, io_written, io_ret>>
usbVars == <<usb_pc, usb_disk, usb_volumes, usb_before, usb_polls, usb_letter, usb_formatted, usb_ret>>
\* the variables of the library crates checked on their own
libVars == <<fnVars, reportVars, packVars, patchVars, mountVars, ioVars, usbVars>>

----------------------------------------------------------------------------
\* Option<T>
None == [some |-> FALSE]
Some(x) == [some |-> TRUE, val |-> x]

\* All sequences over S of length at most n.
SeqsUpTo(S, n) == UNION {[1..k -> S] : k \in 0..n}

\* str::starts_with
starts_with(s, prefix) ==
    /\ Len(s) >= Len(prefix)
    /\ SubSeq(s, 1, Len(prefix)) = prefix

----------------------------------------------------------------------------
\* crates/safety

MaxTokenLen == 5
TokenAlphabet == {"P", "H", "X", "-", "x"}
PHX_PREFIX == <<"P", "H", "X", "-">>
TokBAD == <<"B", "A", "D">>
TokPHXx == <<"P", "H", "X", "-", "x">>

Allow == [kind |-> "Allow"]
Deny(reason) == [kind |-> "Deny", reason |-> reason]
NoDecision == [kind |-> "NoDecision"]

SafetyContext(force, token) == [force_mode |-> force, confirmation_token |-> token]

\* The gate with the token-prefix rule left out.
can_write_to_disk_no_prefix(c, is_system_disk) ==
    IF ~c.force_mode
    THEN Deny("Denied: destructive ops require force-mode")
    ELSE IF ~c.confirmation_token.some
    THEN Deny("Denied: confirmation token missing")
    ELSE Allow

can_write_to_disk(c, is_system_disk) ==
    IF ~c.force_mode
    THEN Deny("Denied: destructive ops require force-mode")
    ELSE IF ~c.confirmation_token.some
    THEN Deny("Denied: confirmation token missing")
    ELSE IF ~starts_with(c.confirmation_token.val, PHX_PREFIX)
    THEN Deny("Denied: invalid confirmation token")
    ELSE IF is_system_disk
    THEN Allow
    ELSE Allow

----------------------------------------------------------------------------
\* Character-level string functions of the Rust standard library.

UPPER == <<"A", "B", "C", "D", "E", "F", "G", "H", "I", "J", "K", "L", "M", "N", "O", "P", "Q", "R", "S", "T", "U", "V", "W", "X", "Y", "Z">>
LOWER == <<"a", "b", "c", "d", "e", "f", "g", "h", "i", "j", "k", "l", "m", "n", "o", "p", "q", "r", "s", "t", "u", "v", "w", "x", "y", "z">>
DIGITS == <<"0", "1", "2", "3", "4", "5", "6", "7", "8", "9">>

Range(s) == {s[i] : i \in DOMAIN s}
Min(S) == CHOOSE x \in S : \A y \in S : x <= y
Max(S) == CHOOSE x \in S : \A y \in S : x >= y

\* char::to_ascii_lowercase / char::to_ascii_uppercase
LowerOf == [c \in Range(UPPER) |-> LOWER[CHOOSE i \in 1..26 : UPPER[i] = c]]
UpperOf == [c \in Range(LOWER) |-> UPPER[CHOOSE i \in 1..26 : LOWER[i] = c]]
char_to_ascii_lowercase(c) == IF c \in DOMAIN LowerOf THEN LowerOf[c] ELSE c
char_to_ascii_uppercase(c) == IF c \in DOMAIN UpperOf THEN UpperOf[c] ELSE c
to_ascii_lowercase(s) == [i \in 1..Len(s) |-> char_to_ascii_lowercase(s[i])]
to_ascii_uppercase(s) == [i \in 1..Len(s) |-> char_to_ascii_uppercase(s[i])]
eq_ignore_ascii_case(a, b) == to_ascii_lowercase(a) = to_ascii_lowercase(b)
is_ascii_digit(c) == c \in Range(DIGITS)

\* str::ends_with
ends_with(s, suffix) ==
    /\ Len(s) >= Len(suffix)
    /\ SubSeq(s, Len(s) - Len(suffix) + 1, Len(s)) = suffix

\* str::find(char) / str::rfind(char): 0-based byte index, or None
find_char(s, c) ==
    LET I == {i \in 1..Len(s) : s[i] = c}
    IN IF I = {} THEN None ELSE Some(Min(I) - 1)
rfind_char(s, c) ==
    LET I == {i \in 1..Len(s) : s[i] = c}
    IN IF I = {} THEN None ELSE Some(Max(I) - 1)

\* str::trim_end_matches(|c| c.is_ascii_digit())
trim_end_digits(s) ==
    LET K == {k \in 0..Len(s) : \A i \in (k + 1)..Len(s) : is_ascii_digit(s[i])}
    IN SubSeq(s, 1, Min(K))

\* str::parse::<u32>() of a digit string; None when it is not one
parse_u32(s) ==
    LET RECURSIVE val(_)
        val(k) == IF k = 0 THEN 0
                  ELSE 10 * val(k - 1) + ((CHOOSE d \in 1..10 : DIGITS[d] = s[k]) - 1)
    IN IF Len(s) = 0 \/ \E i \in 1..Len(s) : ~is_ascii_digit(s[i])
       THEN None ELSE Some(val(Len(s)))

\* Iterator::find / position: the first index whose element satisfies P
FirstIdx(s, P(_)) ==
    LET I == {i \in 1..Len(s) : P(s[i])}
    IN IF I = {} THEN 0 ELSE Min(I)

\* Iterator::flat_map over a sequence of sequences
RECURSIVE Flatten(_)
Flatten(ss) == IF Len(ss) = 0 THEN <<>> ELSE Head(ss) \o Flatten(Tail(ss))

RECURSIVE SumSeq(_)
SumSeq(s) == IF Len(s) = 0 THEN 0 ELSE Head(s) + SumSeq(Tail(s))

----------------------------------------------------------------------------
\* crates/core: the device graph

Partition(id, fs, mounts) == [id |-> id, fs |-> fs, mount_points |-> mounts]
Disk(id, removable, is_system, parts) ==
    [id |-> id, removable |-> removable, is_system_disk |-> is_system, partitions |-> parts]

\* Path and id literals of the modelled hosts.
W_C == <<"C", ":", "\\">>
W_C_W == <<"C", ":", "\\", "W">>
W_c == <<"c", ":">>
W_E == <<"E", ":", "\\">>
W_e == <<"e", ":">>
W_D == <<"D", ":", "\\">>
W_F == <<"F", ":", "\\">>
PD0 == <<"P", "h", "y", "s", "i", "c", "a", "l", "D", "r", "i", "v", "e", "0">>
PD1 == <<"P", "h", "y", "s", "i", "c", "a", "l", "D", "r", "i", "v", "e", "1">>
pd1 == <<"p", "h", "y", "s", "i", "c", "a", "l", "d", "r", "i", "v", "e", "1">>
PD2 == <<"P", "h", "y", "s", "i", "c", "a", "l", "D", "r", "i", "v", "e", "2">>
PD3 == <<"P", "h", "y", "s", "i", "c", "a", "l", "D", "r", "i", "v", "e", "3">>
PD4 == <<"P", "h", "y", "s", "i", "c", "a", "l", "D", "r", "i", "v", "e", "4">>
PD9 == <<"P", "h", "y", "s", "i", "c", "a", "l", "D", "r", "i", "v", "e", "9">>
P_root == <<"/">>
P_u == <<"/", "u">>
P_u_slash == <<"/", "u", "/">>
P_u_x == <<"/", "u", "/", "x">>
P_d == <<"/", "d">>
P_nope == <<"/", "n", "o", "p", "e">>
P_Volumes_U == <<"/", "V", "o", "l", "u", "m", "e", "s", "/", "U">>
DEV_sda == <<"/", "d", "e", "v", "/", "s", "d", "a">>
DEV_sdb == <<"/", "d", "e", "v", "/", "s", "d", "b">>
DEV_sdb1 == <<"/", "d", "e", "v", "/", "s", "d", "b", "1">>
DEV_sdc == <<"/", "d", "e", "v", "/", "s", "d", "c">>
DEV_sdz == <<"/", "d", "e", "v", "/", "s", "d", "z">>
DEV_disk2 == <<"/", "d", "e", "v", "/", "d", "i", "s", "k", "2">>
FS_FAT32 == <<"F", "A", "T", "3", "2">>
FS_NTFS == <<"N", "T", "F", "S">>
FS_exFAT == <<"e", "x", "F", "A", "T">>
FS_EXFAT == <<"E", "X", "F", "A", "T">>
FS_ext4 == <<"e", "x", "t", "4">>
FS_vfat == <<"v", "f", "a", "t">>
FS_apfs == <<"a", "p", "f", "s">>

\* host-windows: disks are PhysicalDriveN, mount points are drive roots.
\* PhysicalDrive0 holds the Windows directory; sys_removable is the provider's
\* removable flag for it (an OS booted from a removable drive).
WindowsGraph(sys_removable) == <<
    Disk(PD0, sys_removable, TRUE, <<Partition(<<"v", "1">>, Some(FS_NTFS), <<W_C>>)>>),
    Disk(PD1, TRUE, FALSE, <<Partition(<<"v", "2">>, Some(FS_FAT32), <<W_E>>)>>),
    Disk(PD2, FALSE, FALSE, <<Partition(<<"v", "3">>, Some(FS_NTFS), <<W_D>>)>>),
    Disk(PD3, TRUE, FALSE, <<Partition(<<"v", "4">>, Some(FS_ext4), <<W_F>>)>>),
    Disk(PD4, TRUE, FALSE, <<>>) >>

\* host-linux: disks are the names under /sys/block; is_system_disk is set
\* for the disk with a partition mounted at "/".
LinuxGraph(sys_removable) == <<
    Disk(<<"s", "d", "a">>, sys_removable, TRUE, <<Partition(<<"s", "d", "a", "1">>, Some(FS_ext4), <<P_root>>)>>),
    Disk(<<"s", "d", "b">>, TRUE, FALSE, <<Partition(<<"s", "d", "b", "1">>, Some(FS_vfat), <<P_u>>)>>),
    Disk(<<"s", "d", "c">>, FALSE, FALSE, <<Partition(<<"s", "d", "c", "1">>, Some(FS_ext4), <<P_d>>)>>) >>

\* host-macos: split_disk_id cuts a device name that starts with "disk" at its
\* first 's'.
split_disk_id(device_name) ==
    IF starts_with(device_name, <<"d", "i", "s", "k">>) /\ find_char(device_name, "s").some
    THEN SubSeq(device_name, 1, find_char(device_name, "s").val)
    ELSE device_name

\* str::split('/').last(), Path::file_name: the text after the last '/'
last_component(s) ==
    LET r == rfind_char(s, "/")
    IN IF r.some THEN SubSeq(s, r.val + 2, Len(s)) ELSE s

MountEntry(device, mount_point, fs_type) ==
    [device |-> device, mount_point |-> mount_point, fs_type |-> fs_type]

\* host-macos enumerate_disks: one Disk per split_disk_id of the mounted
\* /dev devices, in first-seen order (the code's HashMap order is arbitrary).
RECURSIVE enumerate_disks_macos(_, _)
enumerate_disks_macos(mounts, disks) ==
    IF Len(mounts) = 0 THEN disks
    ELSE LET m == Head(mounts)
             device_name == last_component(m.device)
             disk_id == split_disk_id(device_name)
             at == FirstIdx(disks, LAMBDA d : d.id = disk_id)
             old == IF at = 0 THEN Disk(disk_id, FALSE, FALSE, <<>>) ELSE disks[at]
             upd == Disk(disk_id,
                         old.removable \/ starts_with(m.mount_point, <<"/", "V", "o", "l", "u", "m", "e", "s", "/">>),
                         old.is_system_disk \/ m.mount_point = P_root,
                         Append(old.partitions,
                                Partition(device_name, Some(m.fs_type), <<m.mount_point>>)))
         IN IF ~starts_with(m.device, <<"/", "d", "e", "v", "/">>) \/ Len(device_name) = 0
            THEN enumerate_disks_macos(Tail(mounts), disks)
            ELSE enumerate_disks_macos(Tail(mounts),
                    IF at = 0 THEN Append(disks, upd) ELSE [disks EXCEPT ![at] = upd])

MacosMounts == <<
    MountEntry(<<"/", "d", "e", "v", "/", "d", "i", "s", "k", "1", "s", "1">>, P_root, FS_apfs),
    MountEntry(<<"/", "d", "e", "v", "/", "d", "i", "s", "k", "2", "s", "1">>, P_Volumes_U, FS_exFAT) >>

MacosGraph == enumerate_disks_macos(MacosMounts, <<>>)

\* The graphs build_device_graph may return on a host.
Graphs(os) ==
    CASE os = "windows" -> {WindowsGraph(b) : b \in BOOLEAN}
      [] os = "linux" -> {LinuxGraph(b) : b \in BOOLEAN}
      [] os = "macos" -> {MacosGraph}

\* Directories that exist on a unix host besides the mount points.
UnixDirs == {P_root, P_u, P_d, P_u_x, P_Volumes_U}

----------------------------------------------------------------------------
\* The file system contents the handlers read: installer sources, driver
\* directories, bootloader packages, images.

FileEntry(rel, size) == [relative_path |-> rel, size |-> size]

F_setup == FileEntry(<<"s", "e", "t", "u", "p", ".", "e", "x", "e">>, 1)
F_bootwim == FileEntry(<<"s", "o", "u", "r", "c", "e", "s", "/", "b", "o", "o", "t", ".", "w", "i", "m">>, 2)
F_efi == FileEntry(<<"E", "F", "I", "/", "B", "O", "O", "T", "/", "B", "O", "O", "T", "X", "6", "4", ".", "E", "F", "I">>, 1)
F_installwim == FileEntry(<<"s", "o", "u", "r", "c", "e", "s", "/", "i", "n", "s", "t", "a", "l", "l", ".", "w", "i", "m">>, 4194304)
F_grub == FileEntry(<<"b", "o", "o", "t", "/", "g", "r", "u", "b", "/", "g", "r", "u", "b", ".", "c", "f", "g">>, 1)
F_isolinux == FileEntry(<<"i", "s", "o", "l", "i", "n", "u", "x", "/", "i", "s", "o", "l", "i", "n", "u", "x", ".", "b", "i", "n">>, 1)
F_macboot == FileEntry(<<"S", "y", "s", "t", "e", "m", "/", "L", "i", "b", "r", "a", "r", "y", "/", "C", "o", "r", "e", "S", "e", "r", "v", "i", "c", "e", "s", "/", "b", "o", "o", "t", ".", "e", "f", "i">>, 1)
F_readme == FileEntry(<<"R", "E", "A", "D", "M", "E">>, 1)
F_inf == FileEntry(<<"n", "e", "t", ".", "i", "n", "f">>, 1)

\* The PlatformSupport.plist of an installer app: a dictionary from key to the
\* array of strings under it; PlistListed already lists the model "MacPro5,1"
\* under one of the model keys.
PlistKeysModels == <<"SupportedModels", "SupportedModelProperties", "SupportedDeviceModels">>
PlistKeysBoards == <<"BoardIDs", "SupportedBoardIDs", "SupportedBoardIds">>
PlistListed ==
    [k \in {"SupportedModels", "SupportedModelProperties", "SupportedDeviceModels"}
        |-> <<"MacPro5,1">>]

DirSource(files) == [kind |-> "dir", files |-> files]
MissingSource == [kind |-> "missing", files |-> <<>>]

\* What lies at a source_path / driver_source / source_image path; files are in
\* read_dir traversal order.
SourceAt(path) ==
    CASE path = "win_full" -> DirSource(<<F_setup, F_bootwim, F_efi>>)
      [] path = "win_no_bootwim" -> DirSource(<<F_setup, F_efi>>)
      [] path = "win_no_efi" -> DirSource(<<F_setup, F_bootwim>>)
      [] path = "win_no_setup" -> DirSource(<<F_bootwim, F_efi>>)
      [] path = "win_big" -> DirSource(<<F_setup, F_bootwim, F_efi, F_installwim>>)
      [] path = "drivers" -> DirSource(<<F_inf>>)
      [] path = "linux_grub" -> DirSource(<<F_grub, F_readme>>)
      [] path = "linux_iso" -> DirSource(<<F_isolinux, F_efi>>)
      [] path = "efi_only" -> DirSource(<<F_efi>>)
      [] path = "mac_boot" -> DirSource(<<F_macboot, F_readme>>)
      [] path = "plain" -> DirSource(<<F_readme>>)
      [] path = "image.img" -> [kind |-> "file", files |-> <<>>, size |-> 3]
      [] path = "install.wim" -> [kind |-> "wim", files |-> <<>>, total_bytes |-> Some(200)]
      [] path = "install_nosize.wim" -> [kind |-> "wim", files |-> <<>>, total_bytes |-> None]
      [] path = "installer.app" -> [kind |-> "app", files |-> <<>>, plist |-> Some(PlistListed)]
      [] path = "bare.app" -> [kind |-> "app", files |-> <<>>, plist |-> None]
      [] path = "installer.dmg" -> [kind |-> "dmg", files |-> <<>>, has_app |-> TRUE]
      [] path = "restore.dmg" -> [kind |-> "dmg", files |-> <<>>, has_app |-> FALSE]
      [] OTHER -> MissingSource

\* content::prepare_source: a directory is its own root; anything that is not
\* a directory or an .iso file is "unsupported source path".
prepare_source(path) ==
    IF SourceAt(path).kind \in {"dir", "app"}
    THEN [ok |-> TRUE, root |-> path, kind |-> "Directory"]
    ELSE [ok |-> FALSE, err |-> "unsupported source path"]

\* collect_files: every regular file under the root
collect_files(root) == SourceAt(root).files

FAT32_MAX_FILE_KIB == 4194303

\* max_file_size
max_file_size(entries) ==
    IF Len(entries) = 0 THEN 0 ELSE Max({entries[i].size : i \in DOMAIN entries})

\* ensure_boot_files: Ok ("") or the error message
ensure_boot_files(entries) ==
    LET lower(i) == to_ascii_lowercase(entries[i].relative_path)
        has_boot_wim == \E i \in DOMAIN entries : lower(i) = <<"s", "o", "u", "r", "c", "e", "s", "/", "b", "o", "o", "t", ".", "w", "i", "m">>
        has_efi == \E i \in DOMAIN entries :
                      starts_with(lower(i), <<"e", "f", "i", "/", "b", "o", "o", "t", "/">>) /\ ends_with(lower(i), <<".", "e", "f", "i">>)
    IN IF ~has_boot_wim THEN "missing sources/boot.wim in installer source"
       ELSE IF ~has_efi THEN "missing EFI bootloader in installer source"
       ELSE ""

\* ensure_unix_boot_files: Ok ("") or the error message
ensure_unix_boot_files(entries, os) ==
    LET lower(i) == to_ascii_lowercase(entries[i].relative_path)
        has_efi == \E i \in DOMAIN entries : starts_with(lower(i), <<"e", "f", "i", "/", "b", "o", "o", "t", "/">>)
        has_grub == \E i \in DOMAIN entries : starts_with(lower(i), <<"b", "o", "o", "t", "/", "g", "r", "u", "b">>)
        has_isolinux == \E i \in DOMAIN entries : starts_with(lower(i), <<"i", "s", "o", "l", "i", "n", "u", "x", "/">>)
        has_macos_boot == \E i \in DOMAIN entries : lower(i) = <<"s", "y", "s", "t", "e", "m", "/", "l", "i", "b", "r", "a", "r", "y", "/", "c", "o", "r", "e", "s", "e", "r", "v", "i", "c", "e", "s", "/", "b", "o", "o", "t", ".", "e", "f", "i">>
    IN IF os = "linux" /\ ~has_efi /\ ~has_grub /\ ~has_isolinux
       THEN "linux source missing EFI/BOOT, boot/grub, or isolinux"
       ELSE IF os = "macos" /\ ~has_macos_boot /\ ~has_efi
       THEN "macos source missing System/Library/CoreServices/boot.efi or EFI/BOOT"
       ELSE ""

----------------------------------------------------------------------------
\* What a handler does and returns.  events is the order in which it called
\* the safety gate and changed the target; report is the bundle it wrote.

EvGate(is_system, d) == [op |-> "gate", is_system |-> is_system, decision |-> d]
\* a change of the target: kind says how target names it ("disk_id",
\* "path", "device")
EvMut(op, kind, target) == [op |-> op, kind |-> kind, target |-> target]

StepErr(msg, events) == [ok |-> FALSE, err |-> msg, events |-> events, report |-> None]
StepOk(events, meta, artifacts) ==
    [ok |-> TRUE, err |-> "", events |-> events,
     report |-> Some([meta |-> meta, artifacts |-> artifacts])]
NoResult == [ok |-> FALSE, err |-> "not run", events |-> <<>>, report |-> None]

\* What the environment does to the handler: fault names the call that fails
\* ("none": no call fails), fail_at the file at which a failing copy fails,
\* free the answer of the free-space query.
Env(fault, fail_at, free) == [fault |-> fault, fail_at |-> fail_at, free |-> free]

\* create_report_bundle_with_meta_signing_and_artifacts, as the handlers use
\* it: the bundle, or the I/O error.
WriteReport_then_fail(e, events, meta, artifacts) ==
    IF e.fault = "report"
    THEN [ok |-> FALSE, err |-> "failed after the report", events |-> events,
          report |-> Some([meta |-> meta, artifacts |-> artifacts])]
    ELSE StepOk(events, meta, artifacts)
WriteReport(e, events, meta, artifacts) ==
    IF e.fault = "report" THEN StepErr("report bundle i/o error", events)
    ELSE StepOk(events, meta, artifacts)

\* The copy loop shared by the installer handlers: for each entry
\* create_dir_all(parent), fs::copy, count, and hash_file when a manifest is
\* wanted.  copy_fault / "hash" fail at entry e.fail_at.
RECURSIVE CopyLoop(_, _, _, _, _, _, _)
CopyLoop(files, k, dest, hash_manifest, copy_fault, e, acc) ==
    IF k > Len(files) THEN acc
    ELSE LET made == Append(acc.events, EvMut("create_dir_all", "path", dest))
             copied == Append(made, EvMut("copy", "path", dest))
         IN IF e.fault = copy_fault /\ e.fail_at = k
            THEN [acc EXCEPT !.err = "copy failed", !.events = made]
            ELSE IF hash_manifest /\ e.fault = "hash" /\ e.fail_at = k
            THEN [acc EXCEPT !.err = "open source file failed", !.events = copied,
                             !.files = acc.files + 1,
                             !.bytes = acc.bytes + files[k].size]
            ELSE CopyLoop(files, k + 1, dest, hash_manifest, copy_fault, e,
                    [acc EXCEPT !.events = copied,
                                !.files = acc.files + 1,
                                !.bytes = acc.bytes + files[k].size,
                                !.manifest = IF hash_manifest THEN acc.manifest + 1
                                             ELSE acc.manifest])

CopyAcc(events) == [err |-> "", events |-> events, files |-> 0, bytes |-> 0, manifest |-> 0]

\* normalize_mount_path
normalize_mount_path(path) ==
    LET v1 == IF Len(path) = 2 /\ ends_with(path, <<":">>) THEN Append(path, "\\") ELSE path
    IN IF Len(v1) = 3 /\ ends_with(v1, <<":", "\\">>) THEN v1
       ELSE IF ~ends_with(v1, <<"\\">>) /\ ends_with(v1, <<":">>) THEN Append(v1, "\\")
       ELSE v1

\* parse_disk_number
parse_disk_number(id) ==
    IF starts_with(id, <<"P", "h", "y", "s", "i", "c", "a", "l", "D", "r", "i", "v", "e">>)
    THEN parse_u32(SubSeq(id, 14, Len(id)))
    ELSE None

\* extract_drive_letter
extract_drive_letter(path) ==
    IF Len(path) >= 2 /\ path[2] = ":" THEN Some(char_to_ascii_uppercase(path[1])) ELSE None

\* the mount points of a disk, partition by partition
DiskMounts(disk) ==
    Flatten([i \in 1..Len(disk.partitions) |-> disk.partitions[i].mount_points])

\* is_system_mount_path
is_system_mount_path(path, g) ==
    LET value == normalize_mount_path(path)
    IN \E i \in DOMAIN g :
          /\ g[i].is_system_disk
          /\ \E m \in Range(DiskMounts(g[i])) : eq_ignore_ascii_case(m, value)

\* The two refusals every handler that resolves a target disk makes before
\* anything else: Ok ("") or the error message.
check_target_disk_no_removable(disk) ==
    IF disk.is_system_disk THEN "refusing to target system disk" ELSE ""

check_target_disk(disk) ==
    IF disk.is_system_disk THEN "refusing to target system disk"
    ELSE IF ~disk.removable THEN "target disk is not marked removable"
    ELSE ""

----------------------------------------------------------------------------
\* workflow-engine: run_windows_installer_usb

\* the part of run_windows_installer_usb inside `if !params.dry_run`
windows_installer_execute(p, disk, mount0, files, e) ==
    LET c == SafetyContext(p.force, p.confirmation_token)
        d == can_write_to_disk(c, disk.is_system_disk)
        ev1 == <<EvGate(disk.is_system_disk, d)>>
        total_bytes == SumSeq([i \in 1..Len(files) |-> files[i].size])
        disk_number == parse_disk_number(disk.id)
        letter == extract_drive_letter(mount0)
        \* after the repartition / format branch: Ok with the mount and events, or an error
        prep ==
            IF p.repartition
            THEN IF ~disk_number.some
                 THEN [err |-> "invalid disk id", events |-> ev1, mount |-> mount0]
                 ELSE IF e.fault = "format"
                 THEN [err |-> "prepare_usb_disk failed",
                       events |-> Append(ev1, EvMut("partition", "disk_id", disk.id)),
                       mount |-> mount0]
                 ELSE [err |-> "",
                       events |-> ev1 \o <<EvMut("partition", "disk_id", disk.id),
                                           EvMut("format", "disk_id", disk.id)>>,
                       mount |-> normalize_mount_path(<<"G", ":", "\\">>)]
            ELSE IF p.format
            THEN IF ~letter.some
                 THEN [err |-> "unable to parse drive letter from mount path",
                       events |-> ev1, mount |-> mount0]
                 ELSE IF e.fault = "format"
                 THEN [err |-> "format_existing_volume failed",
                       events |-> Append(ev1, EvMut("format", "path", <<letter.val, ":", "\\">>)),
                       mount |-> mount0]
                 ELSE [err |-> "",
                       events |-> Append(ev1, EvMut("format", "path", <<letter.val, ":", "\\">>)),
                       mount |-> mount0]
            ELSE [err |-> "", events |-> ev1, mount |-> mount0]
        copy == CopyLoop(files, 1, prep.mount, p.hash_manifest, "copy", e, CopyAcc(prep.events))
        has_driver == p.driver_source.some
        driver_entries == IF has_driver THEN collect_files(p.driver_source.val) ELSE <<>>
        dcopy == CopyLoop(driver_entries, 1, prep.mount, p.hash_manifest, "driver_copy", e,
                          CopyAcc(copy.events))
        artifact_names ==
            (IF p.hash_manifest /\ copy.manifest > 0 THEN <<"copy_manifest.json">> ELSE <<>>)
            \o (IF p.hash_manifest /\ has_driver /\ dcopy.manifest > 0
                THEN <<"driver_manifest.json">> ELSE <<>>)
    IN IF d.kind = "Deny" THEN [err |-> d.reason, events |-> ev1]
       ELSE IF prep.err # "" THEN [err |-> prep.err, events |-> prep.events]
       ELSE IF Len(prep.mount) = 0
       THEN [err |-> "no mounted volume found", events |-> prep.events]
       ELSE IF e.free = "low"
       THEN [err |-> "insufficient free space", events |-> prep.events]
       ELSE IF copy.err # "" THEN [err |-> copy.err, events |-> copy.events]
       ELSE IF e.fault = "verify" THEN [err |-> "verify failed", events |-> copy.events]
       ELSE IF has_driver /\ SourceAt(p.driver_source.val).kind # "dir"
       THEN [err |-> "driver_source is not a directory", events |-> copy.events]
       ELSE IF has_driver /\ dcopy.err # ""
       THEN [err |-> dcopy.err, events |-> dcopy.events]
       ELSE [err |-> "",
             events |-> IF has_driver THEN dcopy.events ELSE copy.events,
             target_mount |-> prep.mount,
             copied_files |-> copy.files, copied_bytes |-> copy.bytes,
             driver_files |-> IF has_driver THEN dcopy.files ELSE 0,
             driver_bytes |-> IF has_driver THEN dcopy.bytes ELSE 0,
             artifacts |-> artifact_names]

run_windows_installer_usb(p, g, e) ==
    LET di == FirstIdx(g, LAMBDA d : eq_ignore_ascii_case(d.id, p.target_disk_id))
        disk == g[di]
        mounts == DiskMounts(disk)
        normalized == normalize_mount_path(p.target_mount.val)
        belongs == \E m \in Range(mounts) : eq_ignore_ascii_case(m, normalized)
        target_mount ==
            IF p.target_mount.some THEN normalized
            ELSE IF Len(mounts) > 0 THEN normalize_mount_path(mounts[1])
            ELSE <<>>
        pi == FirstIdx(disk.partitions,
                       LAMBDA part : \E m \in Range(part.mount_points) :
                                        eq_ignore_ascii_case(m, target_mount))
        fs_label == IF pi = 0 THEN None ELSE disk.partitions[pi].fs
        prepared == prepare_source(p.source_path)
        files == collect_files(prepared.root)
        boot == ensure_boot_files(files)
        x == windows_installer_execute(p, disk, target_mount, files, e)
        dry == [events |-> <<>>, target_mount |-> target_mount,
                copied_files |-> 0, copied_bytes |-> 0, driver_files |-> 0,
                driver_bytes |-> 0, artifacts |-> <<>>]
        out == IF p.dry_run THEN dry ELSE x
    IN IF e.fault = "graph" THEN StepErr("build_device_graph failed", <<>>)
       ELSE IF di = 0 THEN StepErr("disk not found", <<>>)
       ELSE IF check_target_disk(disk) # "" THEN StepErr(check_target_disk(disk), <<>>)
       ELSE IF p.target_mount.some /\ ~belongs
       THEN StepErr("target_mount does not belong to disk", <<>>)
       ELSE IF fs_label.some
               /\ to_ascii_uppercase(fs_label.val) \notin {FS_FAT32, FS_NTFS, FS_EXFAT}
       THEN StepErr("unsupported filesystem for staging", <<>>)
       ELSE IF ~prepared.ok THEN StepErr(prepared.err, <<>>)
       ELSE IF ~(\E i \in DOMAIN files : files[i].relative_path = F_setup.relative_path)
       THEN StepErr("source missing setup.exe", <<>>)
       ELSE IF e.fault = "collect_files" THEN StepErr("read source failed", <<>>)
       ELSE IF boot # "" THEN StepErr(boot, <<>>)
       ELSE IF eq_ignore_ascii_case(p.filesystem, FS_FAT32)
               /\ max_file_size(files) > FAT32_MAX_FILE_KIB
       THEN StepErr("FAT32 cannot store files > 4GB", <<>>)
       ELSE IF ~p.dry_run /\ x.err # "" THEN StepErr(x.err, x.events)
       ELSE WriteReport(e, out.events,
                [workflow |-> "windows-installer-usb",
                 status |-> IF p.dry_run THEN "dry_run" ELSE "completed",
                 target_mount |-> out.target_mount,
                 copied_files |-> out.copied_files, copied_bytes |-> out.copied_bytes,
                 driver_files |-> out.driver_files, driver_bytes |-> out.driver_bytes,
                 dry_run |-> p.dry_run],
                out.artifacts)

----------------------------------------------------------------------------
\* workflow-engine: run_windows_apply_image

\* content::is_wim: the extension is wim or esd
is_wim(path) == SourceAt(path).kind = "wim"

\* content::find_windows_image: sources/install.wim (or a sibling candidate)
\* under the root
find_windows_image(root) ==
    IF \E i \in DOMAIN SourceAt(root).files :
          SourceAt(root).files[i].relative_path = F_installwim.relative_path
    THEN [ok |-> TRUE, image_path |-> "install.wim"]
    ELSE [ok |-> FALSE, err |-> "install.wim or install.esd not found in source"]

\* content::resolve_windows_image
resolve_windows_image(path) ==
    IF SourceAt(path).kind \in {"file", "wim"}
    THEN IF is_wim(path) THEN [ok |-> TRUE, image_path |-> path]
         ELSE [ok |-> FALSE, err |-> "unsupported image file type"]
    ELSE IF ~prepare_source(path).ok THEN [ok |-> FALSE, err |-> prepare_source(path).err]
    ELSE find_windows_image(prepare_source(path).root)

\* wim::list_images: the modelled images hold one image, index 1
wim_list_images(image_path) ==
    <<[index |-> 1, total_bytes |-> SourceAt(image_path).total_bytes]>>

\* Path::exists for a target directory on the Windows host: the drive roots
path_exists_windows(path, g) ==
    \E i \in DOMAIN g : \E m \in Range(DiskMounts(g[i])) : eq_ignore_ascii_case(m, path)

run_windows_apply_image(p, g, e) ==
    LET is_system_target == is_system_mount_path(p.target_dir, g)
        resolved == resolve_windows_image(p.source_path)
        images == wim_list_images(resolved.image_path)
        ii == FirstIdx(images, LAMBDA image : image.index = p.image_index)
        image_info == images[ii]
        expected == image_info.total_bytes
        c == SafetyContext(p.force, p.confirmation_token)
        d == can_write_to_disk(c, is_system_target)
        ev1 == <<EvGate(is_system_target, d)>>
        ev2 == IF path_exists_windows(p.target_dir, g) THEN ev1
               ELSE Append(ev1, EvMut("create_dir_all", "path", p.target_dir))
        ev3 == Append(ev2, EvMut("apply_image", "path", p.target_dir))
        stats_bytes == IF e.fault = "verify" THEN 0
                       ELSE IF expected.some THEN expected.val ELSE 1
        stats == IF p.verify /\ ~p.dry_run
                 THEN [file_count |-> 1, total_bytes |-> stats_bytes]
                 ELSE [file_count |-> 0, total_bytes |-> 0]
    IN IF e.fault = "graph" THEN StepErr("build_device_graph failed", <<>>)
       ELSE IF ~resolved.ok THEN StepErr(resolved.err, <<>>)
       ELSE IF e.fault = "wim_list" THEN StepErr("wim list failed", <<>>)
       ELSE IF ii = 0 THEN StepErr("image index not found", <<>>)
       ELSE IF ~p.dry_run /\ d.kind = "Deny" THEN StepErr(d.reason, ev1)
       ELSE IF ~p.dry_run /\ ~path_exists_windows(p.target_dir, g) /\ e.fault = "mkdir"
       THEN StepErr("create target dir", ev2)
       ELSE IF ~p.dry_run /\ expected.some /\ e.free = "low"
       THEN StepErr("insufficient free space", ev2)
       ELSE IF ~p.dry_run /\ e.fault = "apply" THEN StepErr("wim apply failed", ev3)
       ELSE IF p.verify /\ ~p.dry_run /\ expected.some
               /\ stats.total_bytes + (expected.val \div 100) < expected.val
       THEN StepErr("verification failed", ev3)
       ELSE WriteReport(e, IF p.dry_run THEN <<>> ELSE ev3,
                [workflow |-> "windows-apply-image",
                 status |-> IF p.dry_run THEN "dry_run" ELSE "completed",
                 target_dir |-> p.target_dir,
                 verify |-> p.verify,
                 file_count |-> stats.file_count, total_bytes |-> stats.total_bytes,
                 dry_run |-> p.dry_run],
                <<>>)

----------------------------------------------------------------------------
\* workflow-engine: the unix handlers

\* normalize_mount_for_unix: drop trailing '/' except from "/"
RECURSIVE normalize_mount_for_unix(_)
normalize_mount_for_unix(path) ==
    IF path # P_root /\ ends_with(path, <<"/">>)
    THEN normalize_mount_for_unix(SubSeq(path, 1, Len(path) - 1))
    ELSE path

\* find_disk_by_mount: index of the first disk with that mount point, 0 if none
find_disk_by_mount(g, mount) ==
    FirstIdx(g, LAMBDA disk : \E mp \in Range(DiskMounts(disk)) :
                    normalize_mount_for_unix(mp) = normalize_mount_for_unix(mount))

\* disk_id_from_device_path
disk_id_from_device_path(path) ==
    LET name == last_component(path)
        trimmed == trim_end_digits(name)
    IN IF Len(name) = 0 THEN None
       ELSE IF starts_with(name, <<"d", "i", "s", "k">>)
       THEN IF find_char(name, "s").some
            THEN Some(SubSeq(name, 1, find_char(name, "s").val))
            ELSE Some(name)
       ELSE IF starts_with(name, <<"n", "v", "m", "e">>) /\ rfind_char(name, "p").some
       THEN Some(SubSeq(name, 1, rfind_char(name, "p").val))
       ELSE IF Len(trimmed) = 0 THEN None ELSE Some(trimmed)

\* Path::exists && Path::is_dir for a target mount: the directories of the
\* host and the mount points of its graph
target_is_dir(path, g) ==
    \/ path \in UnixDirs
    \/ \E i \in DOMAIN g : path \in Range(DiskMounts(g[i]))

\* the write test and copy loop of the installer handlers, after the gate allowed
unix_write_test_and_copy(files, target_mount, hash_manifest, e, events) ==
    LET tested == events \o <<EvMut("write", "path", target_mount)>>
    IN IF e.fault = "write_test"
       THEN [CopyAcc(events) EXCEPT !.err = "write test failed"]
       ELSE CopyLoop(files, 1, target_mount, hash_manifest, "copy", e, CopyAcc(tested))

run_unix_installer_usb(p, g, os, e) ==
    LET target_mount == normalize_mount_for_unix(p.target_mount)
        di == find_disk_by_mount(g, target_mount)
        disk == g[di]
        prepared == prepare_source(p.source_path)
        files == collect_files(prepared.root)
        boot == ensure_unix_boot_files(files, os)
        c == SafetyContext(p.force, p.confirmation_token)
        d == can_write_to_disk(c, disk.is_system_disk)
        ev1 == <<EvGate(disk.is_system_disk, d)>>
        ev2 == IF p.format_device.some
               THEN Append(ev1, EvMut("format", "device", p.format_device.val))
               ELSE ev1
        copy == unix_write_test_and_copy(files, target_mount, p.hash_manifest, e, ev2)
    IN IF os \notin {"linux", "macos"}
       THEN StepErr("unix installer workflow requires linux or macos", <<>>)
       ELSE IF e.fault = "graph" THEN StepErr("build_device_graph failed", <<>>)
       ELSE IF ~target_is_dir(target_mount, g) THEN StepErr("target mount does not exist", <<>>)
       ELSE IF di = 0 THEN StepErr("target mount not found in device graph", <<>>)
       ELSE IF check_target_disk(disk) # "" THEN StepErr(check_target_disk(disk), <<>>)
       ELSE IF ~prepared.ok THEN StepErr(prepared.err, <<>>)
       ELSE IF e.fault = "collect_files" THEN StepErr("read source failed", <<>>)
       ELSE IF boot # "" THEN StepErr(boot, <<>>)
       ELSE IF e.free = "low" THEN StepErr("insufficient free space", <<>>)
       ELSE IF p.dry_run
       THEN WriteReport(e, <<>>,
                [workflow |-> "unix-installer-usb", status |-> "dry_run",
                 target_mount |-> target_mount, copied_files |-> 0, copied_bytes |-> 0,
                 dry_run |-> TRUE], <<>>)
       ELSE IF d.kind = "Deny" THEN StepErr(d.reason, ev1)
       ELSE IF p.format_device.some /\ ~p.format_size_bytes.some
       THEN StepErr("format_size_bytes required when format_device set", ev1)
       ELSE IF p.format_device.some /\ e.fault = "format"
       THEN StepErr("format_fat32 failed", ev2)
       ELSE IF copy.err # "" THEN StepErr(copy.err, copy.events)
       ELSE IF e.fault = "verify" THEN StepErr("verify failed", copy.events)
       ELSE WriteReport(e, copy.events,
                [workflow |-> "unix-installer-usb", status |-> "completed",
                 target_mount |-> target_mount,
                 copied_files |-> copy.files, copied_bytes |-> copy.bytes,
                 dry_run |-> FALSE],
                IF p.hash_manifest /\ copy.manifest > 0
                THEN <<"copy_manifest.json">> ELSE <<>>)

\* run_unix_write_image with the gate consulted after the write
run_unix_write_image_write_first(p, g, os, e) ==
    LET disk_id == disk_id_from_device_path(p.target_device)
        di == FirstIdx(g, LAMBDA disk : eq_ignore_ascii_case(disk.id, disk_id.val))
        disk == g[di]
        c == SafetyContext(p.force, p.confirmation_token)
        d == can_write_to_disk(c, disk.is_system_disk)
        ev1 == <<EvMut("raw_write", "device", p.target_device)>>
        ev2 == Append(ev1, EvGate(disk.is_system_disk, d))
        image == SourceAt(p.source_image)
    IN IF os \notin {"linux", "macos"}
       THEN StepErr("unix image writer requires linux or macos", <<>>)
       ELSE IF e.fault = "graph" THEN StepErr("build_device_graph failed", <<>>)
       ELSE IF ~disk_id.some THEN StepErr("unsupported device path", <<>>)
       ELSE IF di = 0 THEN StepErr("disk not found", <<>>)
       ELSE IF check_target_disk(disk) # "" THEN StepErr(check_target_disk(disk), <<>>)
       ELSE IF p.dry_run
       THEN WriteReport(e, <<>>,
                [workflow |-> "unix-write-image", bytes_written |-> 0,
                 verify_ok |-> None, dry_run |-> TRUE], <<>>)
       ELSE IF p.chunk_size = 0 THEN StepErr("chunk_size must be greater than zero", <<>>)
       ELSE IF image.kind # "file" THEN StepErr("open image failed", <<>>)
       ELSE IF e.fault = "open_device" THEN StepErr("open device failed", <<>>)
       ELSE IF e.fault = "write" THEN StepErr("write failed", ev1)
       ELSE IF d.kind = "Deny" THEN StepErr(d.reason, ev2)
       ELSE WriteReport(e, ev2,
                [workflow |-> "unix-write-image", bytes_written |-> image.size,
                 verify_ok |-> IF p.verify THEN Some(e.fault # "verify") ELSE None,
                 dry_run |-> FALSE], <<>>)

run_unix_write_image(p, g, os, e) ==
    LET disk_id == disk_id_from_device_path(p.target_device)
        di == FirstIdx(g, LAMBDA disk : eq_ignore_ascii_case(disk.id, disk_id.val))
        disk == g[di]
        c == SafetyContext(p.force, p.confirmation_token)
        d == can_write_to_disk(c, disk.is_system_disk)
        ev1 == <<EvGate(disk.is_system_disk, d)>>
        ev2 == Append(ev1, EvMut("raw_write", "device", p.target_device))
        image == SourceAt(p.source_image)
    IN IF os \notin {"linux", "macos"}
       THEN StepErr("unix image writer requires linux or macos", <<>>)
       ELSE IF e.fault = "graph" THEN StepErr("build_device_graph failed", <<>>)
       ELSE IF ~disk_id.some THEN StepErr("unsupported device path", <<>>)
       ELSE IF di = 0 THEN StepErr("disk not found", <<>>)
       ELSE IF check_target_disk(disk) # "" THEN StepErr(check_target_disk(disk), <<>>)
       ELSE IF p.dry_run
       THEN WriteReport(e, <<>>,
                [workflow |-> "unix-write-image", bytes_written |-> 0,
                 verify_ok |-> None, dry_run |-> TRUE], <<>>)
       ELSE IF d.kind = "Deny" THEN StepErr(d.reason, ev1)
       ELSE IF p.chunk_size = 0 THEN StepErr("chunk_size must be greater than zero", ev1)
       ELSE IF image.kind # "file" THEN StepErr("open image failed", ev1)
       ELSE IF e.fault = "open_device" THEN StepErr("open device failed", ev1)
       ELSE IF e.fault = "write" THEN StepErr("write failed", ev2)
       ELSE WriteReport(e, ev2,
                [workflow |-> "unix-write-image", bytes_written |-> image.size,
                 verify_ok |-> IF p.verify THEN Some(e.fault # "verify") ELSE None,
                 dry_run |-> FALSE], <<>>)

run_macos_installer_usb(p, g, os, e) ==
    LET disk_id == disk_id_from_device_path(p.target_device)
        di == FirstIdx(g, LAMBDA disk : eq_ignore_ascii_case(disk.id, disk_id.val))
        disk == g[di]
        c == SafetyContext(p.force, p.confirmation_token)
        d == can_write_to_disk(c, disk.is_system_disk)
        ev1 == <<EvGate(disk.is_system_disk, d)>>
        source == SourceAt(p.source_path)
        erased == Append(ev1, EvMut("erase_disk", "device", p.target_device))
        media == Append(erased, EvMut("createinstallmedia", "device", p.target_device))
        restored == Append(ev1, EvMut("asr_restore", "device", p.target_device))
        meta(mode) == [workflow |-> "macos-installer-usb",
                       status |-> IF p.dry_run THEN "dry_run" ELSE "completed",
                       mode |-> mode, dry_run |-> p.dry_run]
    IN IF os # "macos" THEN StepErr("macos installer workflow requires macOS", <<>>)
       ELSE IF e.fault = "graph" THEN StepErr("build_device_graph failed", <<>>)
       ELSE IF ~disk_id.some THEN StepErr("unsupported target device", <<>>)
       ELSE IF di = 0 THEN StepErr("disk not found", <<>>)
       ELSE IF check_target_disk(disk) # "" THEN StepErr(check_target_disk(disk), <<>>)
       ELSE IF p.dry_run THEN WriteReport(e, <<>>, meta("unknown"), <<>>)
       ELSE IF d.kind = "Deny" THEN StepErr(d.reason, ev1)
       ELSE IF source.kind = "dmg"
       THEN IF e.fault = "mount_dmg" THEN StepErr("mount dmg failed", ev1)
            ELSE IF source.has_app
            THEN IF e.fault = "erase" THEN StepErr("erase disk failed", erased)
                 ELSE WriteReport(e, media, meta("createinstallmedia"), <<>>)
            ELSE WriteReport(e, restored, meta("asr_restore"), <<>>)
       ELSE IF source.kind = "app"
       THEN IF e.fault = "erase" THEN StepErr("erase disk failed", erased)
            ELSE WriteReport(e, media, meta("createinstallmedia"), <<>>)
       ELSE StepErr("unsupported macos source path", ev1)

\* bootloader-core validate_bootloader_package: Ok ("") or the error message
validate_bootloader_package(path) ==
    IF SourceAt(path).kind \notin {"dir", "app"} THEN "bootloader root is not a directory"
    ELSE IF ~(\E i \in DOMAIN SourceAt(path).files :
                SourceAt(path).files[i].relative_path = F_efi.relative_path)
    THEN "bootloader package missing EFI/BOOT/*.EFI entries"
    ELSE ""

run_stage_bootloader(p, g, e) ==
    LET target_mount == normalize_mount_for_unix(p.target_mount)
        di == find_disk_by_mount(g, target_mount)
        disk == g[di]
        package == validate_bootloader_package(p.source_path)
        staging_root == IF p.target_subdir.some
                        THEN target_mount \o <<"/">> \o p.target_subdir.val
                        ELSE target_mount
        c == SafetyContext(p.force, p.confirmation_token)
        d == can_write_to_disk(c, disk.is_system_disk)
        ev1 == <<EvGate(disk.is_system_disk, d)>>
        tested == Append(ev1, EvMut("write", "path", target_mount))
        copy == CopyLoop(collect_files(p.source_path), 1, staging_root, p.hash_manifest,
                         "copy", e, CopyAcc(tested))
        meta(files, bytes) ==
            [workflow |-> "stage-bootloader",
             status |-> IF p.dry_run THEN "dry_run" ELSE "completed",
             target_mount |-> target_mount, staging_root |-> staging_root,
             copied_files |-> files, copied_bytes |-> bytes, dry_run |-> p.dry_run]
    IN IF e.fault = "graph" THEN StepErr("build_device_graph failed", <<>>)
       ELSE IF ~target_is_dir(target_mount, g) THEN StepErr("target mount is invalid", <<>>)
       ELSE IF di = 0 THEN StepErr("target mount not found in device graph", <<>>)
       ELSE IF check_target_disk(disk) # "" THEN StepErr(check_target_disk(disk), <<>>)
       ELSE IF package # "" THEN StepErr(package, <<>>)
       ELSE IF p.dry_run THEN WriteReport(e, <<>>, meta(0, 0), <<>>)
       ELSE IF d.kind = "Deny" THEN StepErr(d.reason, ev1)
       ELSE IF e.fault = "write_test" THEN StepErr("write test failed", ev1)
       ELSE IF copy.err # "" THEN StepErr(copy.err, copy.events)
       ELSE WriteReport(e, copy.events, meta(copy.files, copy.bytes),
                IF p.hash_manifest /\ copy.manifest > 0
                THEN <<"bootloader_manifest.json">> ELSE <<>>)

\* boot_prep_candidates: the boot directories (and, on macOS, boot.efi) that
\* exist under the source root, each with the files it holds
files_under(root, rel) ==
    SelectSeq(collect_files(root), LAMBDA f : starts_with(f.relative_path, rel \o <<"/">>))

add_candidate_dir(candidates, root, rel) ==
    IF Len(files_under(root, rel)) > 0
    THEN Append(candidates, [relative |-> rel, is_dir |-> TRUE, files |-> files_under(root, rel)])
    ELSE candidates

add_candidate_file(candidates, root, rel) ==
    LET hit == SelectSeq(collect_files(root), LAMBDA f : f.relative_path = rel)
    IN IF Len(hit) > 0
       THEN Append(candidates, [relative |-> rel, is_dir |-> FALSE, files |-> hit])
       ELSE candidates

boot_prep_candidates(os, source_root) ==
    IF os = "linux"
    THEN add_candidate_dir(
             add_candidate_dir(
                 add_candidate_dir(<<>>, source_root, <<"E", "F", "I", "/", "B", "O", "O", "T">>),
                 source_root, <<"b", "o", "o", "t", "/", "g", "r", "u", "b">>),
             source_root, <<"i", "s", "o", "l", "i", "n", "u", "x">>)
    ELSE IF os = "macos"
    THEN add_candidate_dir(
             add_candidate_file(<<>>, source_root, F_macboot.relative_path),
             source_root, <<"E", "F", "I", "/", "B", "O", "O", "T">>)
    ELSE <<>>

\* the candidate loop of run_unix_boot_prep: a candidate already on the target
\* is skipped (environment answer "target_exists"), the others are copied
RECURSIVE BootPrepLoop(_, _, _, _, _, _)
BootPrepLoop(candidates, k, target_mount, hash_manifest, e, acc) ==
    IF k > Len(candidates) \/ acc.err # "" THEN acc
    ELSE IF e.fault = "target_exists"
    THEN BootPrepLoop(candidates, k + 1, target_mount, hash_manifest, e, acc)
    ELSE BootPrepLoop(candidates, k + 1, target_mount, hash_manifest, e,
            CopyLoop(candidates[k].files, 1, target_mount, hash_manifest, "copy", e, acc))

run_unix_boot_prep(p, g, os, e) ==
    LET target_mount == normalize_mount_for_unix(p.target_mount)
        di == find_disk_by_mount(g, target_mount)
        disk == g[di]
        prepared == prepare_source(p.source_path)
        candidates == boot_prep_candidates(os, prepared.root)
        c == SafetyContext(p.force, p.confirmation_token)
        d == can_write_to_disk(c, disk.is_system_disk)
        ev1 == <<EvGate(disk.is_system_disk, d)>>
        tested == Append(ev1, EvMut("write", "path", target_mount))
        copy == BootPrepLoop(candidates, 1, target_mount, p.hash_manifest, e, CopyAcc(tested))
        meta(files, bytes) ==
            [workflow |-> "unix-boot-prep",
             status |-> IF p.dry_run THEN "dry_run" ELSE "completed",
             target_mount |-> target_mount,
             copied_files |-> files, copied_bytes |-> bytes, dry_run |-> p.dry_run]
    IN IF os \notin {"linux", "macos"}
       THEN StepErr("unix boot prep requires linux or macos", <<>>)
       ELSE IF e.fault = "graph" THEN StepErr("build_device_graph failed", <<>>)
       ELSE IF ~target_is_dir(target_mount, g) THEN StepErr("target mount is invalid", <<>>)
       ELSE IF di = 0 THEN StepErr("target mount not found in device graph", <<>>)
       ELSE IF check_target_disk(disk) # "" THEN StepErr(check_target_disk(disk), <<>>)
       ELSE IF ~prepared.ok THEN StepErr(prepared.err, <<>>)
       ELSE IF Len(candidates) = 0 THEN StepErr("no boot prep candidates found in source", <<>>)
       ELSE IF p.dry_run THEN WriteReport(e, <<>>, meta(0, 0), <<>>)
       ELSE IF d.kind = "Deny" THEN StepErr(d.reason, ev1)
       ELSE IF e.fault = "write_test" THEN StepErr("write test failed", ev1)
       ELSE IF copy.err # "" THEN StepErr(copy.err, copy.events)
       ELSE WriteReport(e, copy.events, meta(copy.files, copy.bytes),
                IF p.hash_manifest /\ copy.manifest > 0
                THEN <<"bootprep_manifest.json">> ELSE <<>>)

----------------------------------------------------------------------------
\* crates/legacy-patcher

\* find_array_mut + the push of update_plist_arrays for one key: a missing
\* key is inserted as an empty array first
RECURSIVE update_plist_arrays_push(_, _, _, _)
update_plist_arrays_push(value, keys, entry, changed) ==
    IF Len(keys) = 0 THEN [value |-> value, changed |-> changed]
    ELSE LET key == Head(keys)
             array == IF key \in DOMAIN value THEN value[key] ELSE <<>>
             next == [k \in (DOMAIN value) \cup {key} |->
                         IF k = key THEN Append(array, entry) ELSE value[k]]
         IN update_plist_arrays_push(next, Tail(keys), entry, TRUE)

RECURSIVE update_plist_arrays(_, _, _, _)
update_plist_arrays(value, keys, entry, changed) ==
    IF Len(keys) = 0 THEN [value |-> value, changed |-> changed]
    ELSE LET key == Head(keys)
             array == IF key \in DOMAIN value THEN value[key] ELSE <<>>
             listed == \E i \in DOMAIN array : array[i] = entry
             next == [k \in (DOMAIN value) \cup {key} |->
                         IF k = key THEN (IF listed THEN array ELSE Append(array, entry))
                         ELSE value[k]]
         IN update_plist_arrays(next, Tail(keys), entry, changed \/ ~listed)

patch_supported_models(value, model) == update_plist_arrays(value, PlistKeysModels, model, FALSE)
patch_supported_board_ids(value, board_id) ==
    update_plist_arrays(value, PlistKeysBoards, board_id, FALSE)

\* the body of the loop over the candidates for one plist value: the model,
\* then the board id when there is one
patch_plist(value, model, board_id) ==
    LET m == patch_supported_models(value, model)
        b == IF board_id.some THEN patch_supported_board_ids(m.value, board_id.val)
             ELSE [value |-> m.value, changed |-> FALSE]
    IN [value |-> b.value, changed |-> m.changed \/ b.changed]

\* find_install_app: the source itself when it is an installer app
find_install_app(root) == IF SourceAt(root).kind = "app" THEN Some(root) ELSE None

run_legacy_patch(p, e) ==
    LET c == SafetyContext(p.force, p.confirmation_token)
        d == can_write_to_disk(c, FALSE)
        ev1 == <<EvGate(FALSE, d)>>
        prepared == prepare_source(p.source_path)
        app_root == find_install_app(prepared.root)
        model == IF p.model.some THEN p.model.val ELSE "UnknownModel"
        plist == SourceAt(app_root.val).plist
        changed == plist.some /\ patch_plist(plist.val, model, p.board_id).changed
        written == changed /\ ~p.dry_run
        ev2 == IF written THEN Append(ev1, EvMut("plist_write", "path", p.source_path)) ELSE ev1
    IN IF e.fault = "graph" THEN StepErr("build_device_graph failed", <<>>)
       ELSE IF d.kind = "Deny" THEN StepErr(d.reason, ev1)
       ELSE IF ~prepared.ok THEN StepErr(prepared.err, ev1)
       ELSE IF ~app_root.some THEN StepErr("install macOS.app not found in source", ev1)
       ELSE IF plist.some /\ e.fault = "plist_read" THEN StepErr("read plist failed", ev1)
       ELSE IF written /\ e.fault = "plist_write" THEN StepErr("write plist failed", ev2)
       ELSE WriteReport(e, ev2,
                [workflow |-> "macos-legacy-patch",
                 status |-> IF p.dry_run THEN "dry_run" ELSE "completed",
                 patched_files |-> IF changed THEN 1 ELSE 0,
                 dry_run |-> p.dry_run], <<>>)

----------------------------------------------------------------------------
\* Workflow definitions (crates/core) and their validation.

WORKFLOW_SCHEMA_VERSION == "1.0.0"

\* An error of the workflow layer: the text up to a step id, and the step id
\* the text ends with (<<>> when the message names no step id).
WfErr(msg, arg) == [msg |-> msg, arg |-> arg]
NoErr == WfErr("", <<>>)

\* serde_json::Value: a string, a number or a bool; an object is a function
\* from its keys, and a value that is no object has no key.  A string the code
\* looks into is held by its characters (chars), a string that only names a
\* thing on the host (a source, a report bundle, a key) as a whole (text).
JStr(v) == [kind |-> "string", text |-> v, chars |-> <<>>, num |-> 0, bool |-> FALSE]
JChars(v) == [kind |-> "string", text |-> "", chars |-> v, num |-> 0, bool |-> FALSE]
JNum(n) == [kind |-> "number", text |-> "", chars |-> <<>>, num |-> n, bool |-> FALSE]
JBool(b) == [kind |-> "bool", text |-> "", chars |-> <<>>, num |-> 0, bool |-> b]
as_str(v) == IF v.text # "" THEN v.text ELSE v.chars
NoParams == [k \in {} |-> JBool(FALSE)]
json_get(value, key) == IF key \in DOMAIN value THEN Some(value[key]) ELSE None

WorkflowStep(id, action, params) == [id |-> id, action |-> action, params |-> params]
WorkflowDefinition(schema_version, steps) ==
    [schema_version |-> schema_version, name |-> "workflow", steps |-> steps]

WHITESPACE == {" ", "\t", "\n"}

\* str::trim
RECURSIVE trim_start(_)
trim_start(s) ==
    IF s # <<>> /\ Head(s) \in WHITESPACE THEN trim_start(Tail(s)) ELSE s
RECURSIVE trim_end(_)
trim_end(s) ==
    IF s # <<>> /\ s[Len(s)] \in WHITESPACE THEN trim_end(SubSeq(s, 1, Len(s) - 1)) ELSE s
trim(s) == trim_end(trim_start(s))

require_string(value, key) ==
    LET v == json_get(value, key)
    IN IF v.some /\ v.val.kind = "string"
       THEN [ok |-> TRUE, val |-> as_str(v.val), err |-> NoErr]
       ELSE [ok |-> FALSE, val |-> <<>>, err |-> WfErr("missing string field " \o key, <<>>)]

optional_string(value, key) ==
    LET v == json_get(value, key)
    IN IF v.some /\ v.val.kind = "string" THEN Some(as_str(v.val)) ELSE None

\* as_u64 answers for a non-negative integer
require_u32(value, key) ==
    LET v == json_get(value, key)
    IN IF v.some /\ v.val.kind = "number" /\ v.val.num >= 0
       THEN [ok |-> TRUE, val |-> v.val.num, err |-> NoErr]
       ELSE [ok |-> FALSE, val |-> 0, err |-> WfErr("missing number field " \o key, <<>>)]

optional_u64(value, key) ==
    LET v == json_get(value, key)
    IN IF v.some /\ v.val.kind = "number" /\ v.val.num >= 0 THEN Some(v.val.num) ELSE None

\* optional_bool with unwrap_or_default() in place of unwrap_or(default)
optional_bool_or_false(value, key, default) ==
    LET v == json_get(value, key)
    IN IF v.some /\ v.val.kind = "bool" THEN v.val.bool ELSE FALSE

optional_bool(value, key, default) ==
    LET v == json_get(value, key)
    IN IF v.some /\ v.val.kind = "bool" THEN v.val.bool ELSE default

\* the first error of a sequence of `?` calls
FirstErr(errs) ==
    LET bad == {i \in DOMAIN errs : errs[i] # NoErr}
    IN IF bad = {} THEN NoErr ELSE errs[Min(bad)]

current_os(os) == os

ensure_os(required, os) ==
    IF current_os(os) # required
    THEN WfErr("action requires " \o required \o ", current " \o current_os(os), <<>>)
    ELSE NoErr

\* The match takes the first arm that fits: the later "macos_installer_usb"
\* arm (source_path, target_device) is never taken.
validate_step(step, os) ==
    LET a == step.action
        rs(key) == require_string(step.params, key).err
        rn(key) == require_u32(step.params, key).err
    IN CASE a = "windows_installer_usb" ->
                FirstErr(<<ensure_os("windows", os), rs("target_disk_id"), rs("source_path")>>)
         [] a = "windows_apply_image" ->
                FirstErr(<<ensure_os("windows", os), rs("source_path"), rn("image_index"),
                           rs("target_dir")>>)
         [] a = "linux_installer_usb" ->
                FirstErr(<<ensure_os("linux", os), rs("source_path"), rs("target_mount")>>)
         [] a = "macos_installer_usb" ->
                FirstErr(<<ensure_os("macos", os), rs("source_path"), rs("target_mount")>>)
         [] a = "linux_write_image" ->
                FirstErr(<<ensure_os("linux", os), rs("source_image"), rs("target_device")>>)
         [] a = "macos_write_image" ->
                FirstErr(<<ensure_os("macos", os), rs("source_image"), rs("target_device")>>)
         [] a = "linux_boot_prep" ->
                FirstErr(<<ensure_os("linux", os), rs("source_path"), rs("target_mount")>>)
         [] a = "macos_boot_prep" ->
                FirstErr(<<ensure_os("macos", os), rs("source_path"), rs("target_mount")>>)
         [] a = "stage_bootloader" -> FirstErr(<<rs("source_path"), rs("target_mount")>>)
         [] a = "macos_legacy_patch" -> FirstErr(<<ensure_os("macos", os), rs("source_path")>>)
         [] a = "report_verify" -> rs("path")
         [] a = "disk_hash_report" -> rs("disk_id")
         [] OTHER -> WfErr("unknown workflow action " \o a, <<>>)

\* the loop of validate_workflow_definition without the duplicate check
RECURSIVE validate_steps_no_seen(_, _, _, _)
validate_steps_no_seen(steps, i, seen, os) ==
    IF i > Len(steps) THEN NoErr
    ELSE IF trim(steps[i].id) = <<>> THEN WfErr("workflow step id is empty", <<>>)
    ELSE IF validate_step(steps[i], os) # NoErr THEN validate_step(steps[i], os)
    ELSE validate_steps_no_seen(steps, i + 1, seen \cup {steps[i].id}, os)

\* the loop of validate_workflow_definition from step i on; seen is the
\* HashSet of the ids of the steps before i
RECURSIVE validate_steps(_, _, _, _)
validate_steps(steps, i, seen, os) ==
    IF i > Len(steps) THEN NoErr
    ELSE IF trim(steps[i].id) = <<>> THEN WfErr("workflow step id is empty", <<>>)
    ELSE IF steps[i].id \in seen THEN WfErr("duplicate step id ", steps[i].id)
    ELSE IF validate_step(steps[i], os) # NoErr THEN validate_step(steps[i], os)
    ELSE validate_steps(steps, i + 1, seen \cup {steps[i].id}, os)

validate_workflow_definition(def, os) ==
    IF def.schema_version # WORKFLOW_SCHEMA_VERSION
    THEN WfErr("unsupported workflow schema version " \o def.schema_version, <<>>)
    ELSE IF def.steps = <<>> THEN WfErr("workflow has no steps", <<>>)
    ELSE validate_steps(def.steps, 1, {}, os)

----------------------------------------------------------------------------
\* One step: each handler applied to the parameters a caller may pass it.

\* the safety-relevant parameters every destructive handler takes
SafetyArgs ==
    [force : BOOLEAN, token : {None, Some(TokBAD), Some(TokPHXx)}, dry_run : BOOLEAN]

\* <<filesystem, repartition, format, driver_source, hash_manifest>>
WindowsInstallerOptions ==
    {<<FS_FAT32, FALSE, FALSE, None, FALSE>>,
     <<FS_NTFS, FALSE, FALSE, Some("drivers"), TRUE>>,
     <<FS_FAT32, TRUE, FALSE, Some("drivers"), FALSE>>,
     <<FS_NTFS, TRUE, TRUE, None, TRUE>>,
     <<FS_NTFS, FALSE, TRUE, Some("nope"), FALSE>>,
     <<FS_FAT32, FALSE, TRUE, None, TRUE>>}

WindowsInstallerParams ==
    {[action |-> "windows_installer_usb", target_disk_id |-> d, source_path |-> s,
      target_mount |-> m, filesystem |-> o[1], repartition |-> o[2], format |-> o[3],
      driver_source |-> o[4], hash_manifest |-> o[5],
      force |-> a.force, confirmation_token |-> a.token, dry_run |-> a.dry_run] :
        d \in {PD0, pd1, PD2, PD3, PD4, PD9},
        s \in {"win_full", "win_no_bootwim", "win_no_efi", "win_no_setup", "win_big", "nope"},
        m \in {None, Some(W_e)},
        o \in WindowsInstallerOptions,
        a \in SafetyArgs}

WindowsApplyImageParams ==
    {[action |-> "windows_apply_image", source_path |-> s, image_index |-> ix,
      target_dir |-> t, verify |-> v,
      force |-> a.force, confirmation_token |-> a.token, dry_run |-> a.dry_run] :
        s \in {"install.wim", "install_nosize.wim", "image.img", "win_big", "win_full", "nope"},
        ix \in {1, 2},
        t \in {W_C, W_C_W, W_c, W_E, W_D},
        v \in BOOLEAN,
        a \in SafetyArgs}

UnixInstallerParams ==
    {[action |-> "unix_installer_usb", source_path |-> s, target_mount |-> t,
      format_device |-> fd[1], format_size_bytes |-> fd[2], hash_manifest |-> h,
      force |-> a.force, confirmation_token |-> a.token, dry_run |-> a.dry_run] :
        s \in {"linux_grub", "efi_only", "mac_boot", "plain", "nope"},
        t \in {P_root, P_u, P_u_slash, P_u_x, P_d, P_nope, P_Volumes_U},
        fd \in {<<None, None>>, <<Some(DEV_sdb1), Some(64)>>, <<Some(DEV_sdb1), None>>},
        h \in BOOLEAN,
        a \in SafetyArgs}

UnixWriteImageParams ==
    {[action |-> "unix_write_image", source_image |-> s, target_device |-> t,
      chunk_size |-> cs, verify |-> v,
      force |-> a.force, confirmation_token |-> a.token, dry_run |-> a.dry_run] :
        s \in {"image.img", "nope"},
        t \in {DEV_sda, DEV_sdb, DEV_sdb1, DEV_sdc, DEV_sdz, DEV_disk2},
        cs \in {0, 4},
        v \in BOOLEAN,
        a \in SafetyArgs}

MacosInstallerParams ==
    {[action |-> "macos_installer_usb", source_path |-> s, target_device |-> t,
      force |-> a.force, confirmation_token |-> a.token, dry_run |-> a.dry_run] :
        s \in {"installer.app", "installer.dmg", "restore.dmg", "plain"},
        t \in {DEV_disk2, DEV_sdb},
        a \in SafetyArgs}

StageBootloaderParams ==
    {[action |-> "stage_bootloader", source_path |-> s, target_mount |-> t,
      target_subdir |-> sub, hash_manifest |-> h,
      force |-> a.force, confirmation_token |-> a.token, dry_run |-> a.dry_run] :
        s \in {"efi_only", "plain", "nope"},
        t \in {P_root, P_u, P_d, P_nope, W_C, W_E},
        sub \in {None, Some(<<"b">>)},
        h \in BOOLEAN,
        a \in SafetyArgs}

UnixBootPrepParams ==
    {[action |-> "unix_boot_prep", source_path |-> s, target_mount |-> t, hash_manifest |-> h,
      force |-> a.force, confirmation_token |-> a.token, dry_run |-> a.dry_run] :
        s \in {"linux_grub", "linux_iso", "mac_boot", "plain", "nope"},
        t \in {P_root, P_u, P_d, P_nope},
        h \in BOOLEAN,
        a \in SafetyArgs}

LegacyPatchParams ==
    {[action |-> "legacy_patch", source_path |-> s, model |-> m, board_id |-> b,
      force |-> a.force, confirmation_token |-> a.token, dry_run |-> a.dry_run] :
        s \in {"installer.app", "bare.app", "plain", "nope"},
        m \in {None, Some("MacPro5,1")},
        b \in {None, Some("Mac-B1")},
        a \in SafetyArgs}

\* The Windows handlers call the Windows host crate and are run on Windows;
\* the others are built for every host.
StepParams(os) ==
    (IF os = "windows" THEN WindowsInstallerParams \cup WindowsApplyImageParams ELSE {})
    \cup UnixInstallerParams \cup UnixWriteImageParams \cup MacosInstallerParams
    \cup StageBootloaderParams \cup UnixBootPrepParams \cup LegacyPatchParams

MaxFailAt == 2
CopyFaults == {"copy", "hash", "driver_copy"}

\* the calls of each handler that the environment can make fail
FaultsOf(action) ==
    CASE action = "windows_installer_usb" ->
            {"none", "graph", "collect_files", "format", "copy", "hash", "verify",
             "driver_copy", "report"}
      [] action = "windows_apply_image" ->
            {"none", "graph", "wim_list", "mkdir", "apply", "verify", "report"}
      [] action = "unix_installer_usb" ->
            {"none", "graph", "collect_files", "format", "write_test", "copy", "hash",
             "verify", "report"}
      [] action = "unix_write_image" ->
            {"none", "graph", "open_device", "write", "verify", "report"}
      [] action = "macos_installer_usb" -> {"none", "graph", "mount_dmg", "erase", "report"}
      [] action = "stage_bootloader" ->
            {"none", "graph", "write_test", "copy", "hash", "report"}
      [] action = "unix_boot_prep" ->
            {"none", "graph", "write_test", "target_exists", "copy", "hash", "report"}
      [] action = "legacy_patch" -> {"none", "graph", "plist_read", "plist_write", "report"}

\* the handlers that ask for the free space of the target
AsksFreeSpace(action) ==
    action \in {"windows_installer_usb", "windows_apply_image", "unix_installer_usb"}

Envs(action) ==
    LET frees == IF AsksFreeSpace(action) THEN {"ok", "low"} ELSE {"ok"}
    IN {Env(f, 1, fr) : f \in FaultsOf(action) \ CopyFaults, fr \in frees}
       \cup {Env(f, k, fr) : f \in FaultsOf(action) \cap CopyFaults,
                              k \in 1..MaxFailAt, fr \in frees}

\* the handler a step's action names
RunStep(p, g, os, e) ==
    CASE p.action = "windows_installer_usb" -> run_windows_installer_usb(p, g, e)
      [] p.action = "windows_apply_image" -> run_windows_apply_image(p, g, e)
      [] p.action = "unix_installer_usb" -> run_unix_installer_usb(p, g, os, e)
      [] p.action = "unix_write_image" -> run_unix_write_image(p, g, os, e)
      [] p.action = "macos_installer_usb" -> run_macos_installer_usb(p, g, os, e)
      [] p.action = "stage_bootloader" -> run_stage_bootloader(p, g, e)
      [] p.action = "unix_boot_prep" -> run_unix_boot_prep(p, g, os, e)
      [] p.action = "legacy_patch" -> run_legacy_patch(p, e)

----------------------------------------------------------------------------
\* The steps run_workflow_definition dispatches to.

\* crates/report.  A bundle is a directory: a function from file names to
\* contents.  A content is its bytes, or the manifest / hex signature that a
\* file written by the crate holds.
N_device_graph == <<"d", "e", "v", "i", "c", "e", "_", "g", "r", "a", "p", "h", ".", "j", "s", "o", "n">>
N_run == <<"r", "u", "n", ".", "j", "s", "o", "n">>
N_logs == <<"l", "o", "g", "s", ".", "t", "x", "t">>
N_manifest == <<"m", "a", "n", "i", "f", "e", "s", "t", ".", "j", "s", "o", "n">>
N_sig == <<"m", "a", "n", "i", "f", "e", "s", "t", ".", "s", "i", "g">>
N_disk_hashes == <<"d", "i", "s", "k", "_", "h", "a", "s", "h", "e", "s", ".", "j", "s", "o", "n">>

Bytes(b) == [kind |-> "bytes", bytes |-> b]
NoFiles == [n \in {} |-> Bytes(<<>>)]
fs_write(files, name, content) ==
    [n \in DOMAIN files \cup {name} |-> IF n = name THEN content ELSE files[n]]
fs_remove(files, name) == [n \in DOMAIN files \ {name} |-> files[n]]

\* Sha256::digest, taken to be free of collisions: the digest names the
\* content it was made of
sha256_of_len(data) == [sha256_of |-> data.kind]
sha256(data) == [sha256_of |-> data]

ReportArtifact(name, bytes) == [name |-> name, bytes |-> bytes]
ManifestEntry(path, bytes, sha) == [path |-> path, bytes |-> bytes, sha256 |-> sha]
Manifest(entries) == [kind |-> "manifest", entries |-> entries]

\* to_hex: lower-case hex text of a digest.  uppercase and padded say how a
\* text on disk differs from it: letters in upper case, white space around it.
to_hex(digest) == [kind |-> "hex", digest |-> digest, uppercase |-> FALSE, padded |-> FALSE]
hex_trim(text) == IF text.kind = "hex" THEN [text EXCEPT !.padded = FALSE] ELSE text
hex_eq_any(a, b) == a.kind = "hex" /\ b.kind = "hex"
hex_eq_ignore_ascii_case(a, b) ==
    /\ a.kind = "hex" /\ b.kind = "hex"
    /\ a.digest = b.digest /\ a.padded = b.padded

\* data.len() of a file; the JSON text of a manifest is longer than any other
\* file of the model
byte_len(content) ==
    CASE content.kind = "bytes" -> Len(content.bytes)
      [] content.kind = "manifest" -> 100 + 100 * Len(content.entries)
      [] content.kind = "hex" -> 64 + (IF content.padded THEN 1 ELSE 0)

HEX_DIGITS == <<"0", "1", "2", "3", "4", "5", "6", "7", "8", "9",
                "a", "b", "c", "d", "e", "f">>
hex_digit(c) ==
    LET at == {i \in DOMAIN HEX_DIGITS : HEX_DIGITS[i] = char_to_ascii_lowercase(c)}
    IN IF at = {} THEN None ELSE Some(Min(at) - 1)

\* u8::from_str_radix(hex, 16) of two characters; a leading '+' is a sign
from_str_radix_16(hex) ==
    LET hi == hex_digit(hex[1])
        lo == hex_digit(hex[2])
    IN IF hi.some /\ lo.some THEN Some(16 * hi.val + lo.val)
       ELSE IF hex[1] = "+" /\ lo.some THEN Some(lo.val)
       ELSE None

decode_hex(value) ==
    LET v == trim(value)
        pairs == [i \in 1..(Len(v) \div 2) |-> from_str_radix_16(SubSeq(v, 2 * i - 1, 2 * i))]
    IN IF Len(v) % 2 # 0
       THEN [ok |-> FALSE, err |-> "signing key hex must be even length", bytes |-> <<>>]
       ELSE IF \E i \in DOMAIN pairs : ~pairs[i].some
       THEN [ok |-> FALSE, err |-> "invalid hex", bytes |-> <<>>]
       ELSE [ok |-> TRUE, err |-> "", bytes |-> [i \in DOMAIN pairs |-> pairs[i].val]]

HMAC_BLOCK == 64

\* hmac_sha256: the key is hashed when longer than a block and padded with
\* zeros to one block; the digest names key block and message
hmac_sha256(key, message) ==
    LET key_block ==
            IF Len(key) > HMAC_BLOCK THEN [hashed |-> sha256(Bytes(key))]
            ELSE [block |-> [i \in 1..HMAC_BLOCK |-> IF i <= Len(key) THEN key[i] ELSE 0]]
    IN [hmac_key_block |-> key_block, message |-> message]

contains(s, c) == \E i \in DOMAIN s : s[i] = c

\* the loop over the artifacts from artifact k on: the name check, then
\* fs::write, which fails on a name that is the directory itself or its parent
RECURSIVE write_artifacts(_, _, _)
write_artifacts(files, artifacts, k) ==
    IF k > Len(artifacts) THEN [ok |-> TRUE, err |-> "", files |-> files]
    ELSE IF contains(artifacts[k].name, "/") \/ contains(artifacts[k].name, "\\")
    THEN [ok |-> FALSE, err |-> "artifact name must be a filename only", files |-> files]
    ELSE IF artifacts[k].name \in {<<>>, <<".">>, <<".", ".">>}
    THEN [ok |-> FALSE, err |-> "report bundle i/o error", files |-> files]
    ELSE write_artifacts(fs_write(files, artifacts[k].name, Bytes(artifacts[k].bytes)),
                         artifacts, k + 1)

\* build_manifest: each file is read back from the directory
build_manifest(files, artifact_names) ==
    LET paths == <<N_device_graph, N_run, N_logs>> \o artifact_names
    IN Manifest([i \in DOMAIN paths |->
            ManifestEntry(paths[i], byte_len(files[paths[i]]), sha256(files[paths[i]]))])

\* create_report_bundle_with_meta_signing_and_artifacts on the contents of the
\* new directory: graph_json, meta and logs are the bytes of the three fixed files.
\* The files written before an error stay where they are.
create_report_bundle(graph_json, meta, logs, signing_key_hex, artifacts) ==
    LET fixed == fs_write(fs_write(fs_write(NoFiles, N_device_graph, Bytes(graph_json)),
                                   N_run, Bytes(meta)), N_logs, Bytes(logs))
        written == write_artifacts(fixed, artifacts, 1)
        manifest == build_manifest(written.files,
                                   [i \in DOMAIN artifacts |-> artifacts[i].name])
        with_manifest == fs_write(written.files, N_manifest, manifest)
        key == decode_hex(signing_key_hex.val)
    IN IF ~written.ok THEN written
       ELSE IF ~signing_key_hex.some THEN [ok |-> TRUE, err |-> "", files |-> with_manifest]
       ELSE IF ~key.ok THEN [ok |-> FALSE, err |-> key.err, files |-> with_manifest]
       ELSE [ok |-> TRUE, err |-> "",
             files |-> fs_write(with_manifest, N_sig, to_hex(hmac_sha256(key.bytes, manifest)))]

\* a mismatch line: "missing", "hash mismatch" or "size mismatch", and the path
Mismatch(what, path) == [what |-> what, path |-> path]

\* verify_report_bundle on the contents of the directory at report_root
verify_report_bundle(report_root, signing_key_hex, e) ==
    LET manifest == report_root[N_manifest]
        mismatch(entry) ==
            IF entry.path \notin DOMAIN report_root THEN <<Mismatch("missing", entry.path)>>
            ELSE (IF sha256(report_root[entry.path]) # entry.sha256
                  THEN <<Mismatch("hash mismatch", entry.path)>> ELSE <<>>)
                 \o (IF byte_len(report_root[entry.path]) # entry.bytes
                     THEN <<Mismatch("size mismatch", entry.path)>> ELSE <<>>)
        mismatches == Flatten([i \in DOMAIN manifest.entries |-> mismatch(manifest.entries[i])])
        key == decode_hex(signing_key_hex.val)
        signature_valid ==
            IF N_sig \in DOMAIN report_root
            THEN Some(hex_eq_ignore_ascii_case(hex_trim(report_root[N_sig]),
                                               to_hex(hmac_sha256(key.bytes, manifest))))
            ELSE None
    IN IF N_manifest \notin DOMAIN report_root
       THEN [is_ok |-> FALSE, err |-> "manifest.json not found"]
       ELSE IF e.fault = "read" THEN [is_ok |-> FALSE, err |-> "report bundle i/o error"]
       ELSE IF manifest.kind # "manifest" THEN [is_ok |-> FALSE, err |-> "manifest.json parse error"]
       ELSE IF N_sig \in DOMAIN report_root /\ ~signing_key_hex.some
       THEN [is_ok |-> FALSE, err |-> "signing key required"]
       ELSE IF N_sig \in DOMAIN report_root /\ ~key.ok THEN [is_ok |-> FALSE, err |-> key.err]
       ELSE [is_ok |-> TRUE, err |-> "",
             ok |-> mismatches = <<>> /\ (IF signature_valid.some THEN signature_valid.val
                                          ELSE TRUE),
             mismatches |-> mismatches, signature_valid |-> signature_valid]

\* Report bundles on the host that a report_verify step may name: one as it
\* was written, one with a file changed and a file removed, a signed one.
KEY_ab == <<"a", "b">>
ReportBundleAt(path) ==
    LET plain == create_report_bundle(<<1>>, <<2>>, <<3>>, None, <<>>).files
    IN CASE path = "/tmp/r" -> plain
         [] path = "/tmp/tampered" ->
                fs_remove(fs_write(plain, N_device_graph, Bytes(<<9>>)), N_run)
         [] path = "/tmp/signed" ->
                create_report_bundle(<<1>>, <<2>>, <<3>>, Some(KEY_ab), <<>>).files
         [] OTHER -> NoFiles

\* run_disk_hash_report: reads the disk, changes nothing, asks no gate.  The
\* hashes themselves are left out of the artifact.
run_disk_hash_report(p, g, e) ==
    LET di == FirstIdx(g, LAMBDA disk : eq_ignore_ascii_case(disk.id, p.disk_id))
        disk == g[di]
    IN IF e.fault = "graph" THEN StepErr("build_device_graph failed", <<>>)
       ELSE IF di = 0 THEN StepErr("disk not found", <<>>)
       ELSE IF e.fault = "hash" THEN StepErr("disk read failed", <<>>)
       ELSE WriteReport(e, <<>>,
                [workflow |-> "disk-hash-report", disk_id |-> disk.id,
                 chunk_size |-> p.chunk_size], <<"disk_hashes.json">>)

\* 8 * 1024 * 1024 bytes
DEFAULT_CHUNK_SIZE_KIB == 8192

Built(p) == [ok |-> TRUE, err |-> NoErr, params |-> p]
BuildErr(err) == [ok |-> FALSE, err |-> err, params |-> <<>>]

\* the FileSystem variants are held by their as_str names
parse_filesystem_value(value) ==
    LET v == to_ascii_lowercase(trim(value))
    IN CASE v = <<"f", "a", "t", "3", "2">> -> [ok |-> TRUE, val |-> FS_FAT32, err |-> NoErr]
         [] v = <<"n", "t", "f", "s">> -> [ok |-> TRUE, val |-> FS_NTFS, err |-> NoErr]
         [] v = <<"e", "x", "f", "a", "t">> -> [ok |-> TRUE, val |-> FS_EXFAT, err |-> NoErr]
         [] OTHER -> [ok |-> FALSE, val |-> <<>>, err |-> WfErr("unsupported filesystem ", v)]

build_usb_params(value) ==
    LET target_disk_id == require_string(value, "target_disk_id")
        source_path == require_string(value, "source_path")
        fs_name == optional_string(value, "filesystem")
        filesystem == parse_filesystem_value(IF fs_name.some THEN fs_name.val
                                             ELSE <<"f", "a", "t", "3", "2">>)
        errs == FirstErr(<<target_disk_id.err, source_path.err, filesystem.err>>)
    IN IF errs # NoErr THEN BuildErr(errs)
       ELSE Built([action |-> "windows_installer_usb",
                   target_disk_id |-> target_disk_id.val, source_path |-> source_path.val,
                   target_mount |-> optional_string(value, "target_mount"),
                   force |-> optional_bool(value, "force", FALSE),
                   confirmation_token |-> optional_string(value, "confirmation_token"),
                   dry_run |-> optional_bool(value, "dry_run", TRUE),
                   repartition |-> optional_bool(value, "repartition", FALSE),
                   format |-> optional_bool(value, "format", FALSE),
                   filesystem |-> filesystem.val,
                   driver_source |-> optional_string(value, "driver_source"),
                   hash_manifest |-> optional_bool(value, "hash_manifest", FALSE)])

build_apply_params(value) ==
    LET source_path == require_string(value, "source_path")
        target_dir == require_string(value, "target_dir")
        image_index == require_u32(value, "image_index")
        errs == FirstErr(<<source_path.err, target_dir.err, image_index.err>>)
    IN IF errs # NoErr THEN BuildErr(errs)
       ELSE Built([action |-> "windows_apply_image",
                   source_path |-> source_path.val, image_index |-> image_index.val,
                   target_dir |-> target_dir.val,
                   force |-> optional_bool(value, "force", FALSE),
                   confirmation_token |-> optional_string(value, "confirmation_token"),
                   dry_run |-> optional_bool(value, "dry_run", TRUE),
                   verify |-> optional_bool(value, "verify", FALSE)])

build_verify_params(value) ==
    LET path == require_string(value, "path")
    IN IF ~path.ok THEN BuildErr(path.err)
       ELSE Built([path |-> path.val, key |-> optional_string(value, "signing_key")])

build_hash_params(value) ==
    LET disk_id == require_string(value, "disk_id")
        chunk_size == optional_u64(value, "chunk_size")
    IN IF ~disk_id.ok THEN BuildErr(disk_id.err)
       ELSE Built([action |-> "disk_hash_report", disk_id |-> disk_id.val,
                   chunk_size |-> IF chunk_size.some THEN chunk_size.val
                                  ELSE DEFAULT_CHUNK_SIZE_KIB,
                   max_chunks |-> optional_u64(value, "max_chunks")])

build_unix_usb_params(value) ==
    LET source_path == require_string(value, "source_path")
        target_mount == require_string(value, "target_mount")
        errs == FirstErr(<<source_path.err, target_mount.err>>)
    IN IF errs # NoErr THEN BuildErr(errs)
       ELSE Built([action |-> "unix_installer_usb",
                   source_path |-> source_path.val, target_mount |-> target_mount.val,
                   force |-> optional_bool(value, "force", FALSE),
                   confirmation_token |-> optional_string(value, "confirmation_token"),
                   dry_run |-> optional_bool(value, "dry_run", TRUE),
                   hash_manifest |-> optional_bool(value, "hash_manifest", FALSE),
                   format_device |-> optional_string(value, "format_device"),
                   format_size_bytes |-> optional_u64(value, "format_size_bytes")])

build_unix_write_params(value) ==
    LET source_image == require_string(value, "source_image")
        target_device == require_string(value, "target_device")
        chunk_size == optional_u64(value, "chunk_size")
        errs == FirstErr(<<source_image.err, target_device.err>>)
    IN IF errs # NoErr THEN BuildErr(errs)
       ELSE Built([action |-> "unix_write_image",
                   source_image |-> source_image.val, target_device |-> target_device.val,
                   force |-> optional_bool(value, "force", FALSE),
                   confirmation_token |-> optional_string(value, "confirmation_token"),
                   dry_run |-> optional_bool(value, "dry_run", TRUE),
                   verify |-> optional_bool(value, "verify", FALSE),
                   chunk_size |-> IF chunk_size.some THEN chunk_size.val
                                  ELSE DEFAULT_CHUNK_SIZE_KIB])

build_unix_boot_params(value) ==
    LET source_path == require_string(value, "source_path")
        target_mount == require_string(value, "target_mount")
        errs == FirstErr(<<source_path.err, target_mount.err>>)
    IN IF errs # NoErr THEN BuildErr(errs)
       ELSE Built([action |-> "unix_boot_prep",
                   source_path |-> source_path.val, target_mount |-> target_mount.val,
                   force |-> optional_bool(value, "force", FALSE),
                   confirmation_token |-> optional_string(value, "confirmation_token"),
                   dry_run |-> optional_bool(value, "dry_run", TRUE),
                   hash_manifest |-> optional_bool(value, "hash_manifest", FALSE)])

build_stage_bootloader_params(value) ==
    LET source_path == require_string(value, "source_path")
        target_mount == require_string(value, "target_mount")
        errs == FirstErr(<<source_path.err, target_mount.err>>)
    IN IF errs # NoErr THEN BuildErr(errs)
       ELSE Built([action |-> "stage_bootloader",
                   source_path |-> source_path.val, target_mount |-> target_mount.val,
                   target_subdir |-> optional_string(value, "target_subdir"),
                   force |-> optional_bool(value, "force", FALSE),
                   confirmation_token |-> optional_string(value, "confirmation_token"),
                   dry_run |-> optional_bool(value, "dry_run", TRUE),
                   hash_manifest |-> optional_bool(value, "hash_manifest", FALSE)])

build_legacy_patch_params(value) ==
    LET source_path == require_string(value, "source_path")
    IN IF ~source_path.ok THEN BuildErr(source_path.err)
       ELSE Built([action |-> "legacy_patch", source_path |-> source_path.val,
                   model |-> optional_string(value, "model"),
                   board_id |-> optional_string(value, "board_id"),
                   force |-> optional_bool(value, "force", FALSE),
                   confirmation_token |-> optional_string(value, "confirmation_token"),
                   dry_run |-> optional_bool(value, "dry_run", TRUE)])

\* the handler an action of the dispatch table runs
HandlerOf(action) ==
    CASE action = "windows_installer_usb" -> "windows_installer_usb"
      [] action = "windows_apply_image" -> "windows_apply_image"
      [] action \in {"linux_installer_usb", "macos_installer_usb"} -> "unix_installer_usb"
      [] action \in {"linux_write_image", "macos_write_image"} -> "unix_write_image"
      [] action \in {"linux_boot_prep", "macos_boot_prep"} -> "unix_boot_prep"
      [] action = "stage_bootloader" -> "stage_bootloader"
      [] action = "macos_legacy_patch" -> "legacy_patch"
      [] action = "report_verify" -> "report_verify"
      [] action = "disk_hash_report" -> "disk_hash_report"
      [] OTHER -> "none"

\* what one arm of the match returns to the loop: the error of a `?`, or the
\* report the handler wrote (None for report_verify)
ArmErr(err, events) == [ok |-> FALSE, err |-> err, events |-> events, report |-> None]
ArmOf(r) ==
    IF r.ok THEN [ok |-> TRUE, err |-> NoErr, events |-> r.events, report |-> r.report]
    ELSE ArmErr(WfErr(r.err, <<>>), r.events)
ViaHandler(built, Handler(_)) ==
    IF ~built.ok THEN ArmErr(built.err, <<>>) ELSE ArmOf(Handler(built.params))

\* The match on step.action in run_workflow_definition.  The first arm that
\* fits is taken, so "macos_installer_usb" runs run_unix_installer_usb and the
\* later arm that would call run_macos_installer_usb is never reached.
dispatch_step(step, g, os, e) ==
    LET a == step.action
        verify == build_verify_params(step.params)
        verification == verify_report_bundle(ReportBundleAt(verify.params.path),
                                            verify.params.key, e)
    IN CASE a = "windows_installer_usb" ->
                ViaHandler(build_usb_params(step.params),
                           LAMBDA p : run_windows_installer_usb(p, g, e))
         [] a = "windows_apply_image" ->
                ViaHandler(build_apply_params(step.params),
                           LAMBDA p : run_windows_apply_image(p, g, e))
         [] a \in {"linux_installer_usb", "macos_installer_usb"} ->
                ViaHandler(build_unix_usb_params(step.params),
                           LAMBDA p : run_unix_installer_usb(p, g, os, e))
         [] a \in {"linux_write_image", "macos_write_image"} ->
                ViaHandler(build_unix_write_params(step.params),
                           LAMBDA p : run_unix_write_image(p, g, os, e))
         [] a \in {"linux_boot_prep", "macos_boot_prep"} ->
                ViaHandler(build_unix_boot_params(step.params),
                           LAMBDA p : run_unix_boot_prep(p, g, os, e))
         [] a = "stage_bootloader" ->
                ViaHandler(build_stage_bootloader_params(step.params),
                           LAMBDA p : run_stage_bootloader(p, g, e))
         [] a = "macos_legacy_patch" ->
                ViaHandler(build_legacy_patch_params(step.params),
                           LAMBDA p : run_legacy_patch(p, e))
         [] a = "report_verify" ->
                IF ~verify.ok THEN ArmErr(verify.err, <<>>)
                ELSE IF ~verification.is_ok THEN ArmErr(WfErr(verification.err, <<>>), <<>>)
                ELSE IF ~verification.ok
                THEN ArmErr(WfErr("report verification failed", <<>>), <<>>)
                ELSE [ok |-> TRUE, err |-> NoErr, events |-> <<>>, report |-> None]
         [] a = "disk_hash_report" ->
                ViaHandler(build_hash_params(step.params),
                           LAMBDA p : run_disk_hash_report(p, g, e))
         [] OTHER -> ArmErr(WfErr("unknown workflow action " \o a, <<>>), <<>>)

WorkflowStepResult(id, action, report_root) ==
    [id |-> id, action |-> action, report_root |-> report_root]

\* the root directory of the n-th report bundle written during the run
ReportRoot(n) == <<"reports", n>>

----------------------------------------------------------------------------
\* crates/imaging

Chunk(index, offset, size) == [index |-> index, offset |-> offset, size |-> size]

\* the while loop of make_chunk_plan with every chunk of the full chunk size
RECURSIVE chunk_loop_no_min(_, _, _, _, _)
chunk_loop_no_min(total_size, chunk_size_bytes, offset, index, chunks) ==
    IF offset < total_size
    THEN chunk_loop_no_min(total_size, chunk_size_bytes, offset + chunk_size_bytes, index + 1,
                           Append(chunks, Chunk(index, offset, chunk_size_bytes)))
    ELSE chunks

\* The while loop of make_chunk_plan.  offset never passes total_size, so the
\* u64 sums cannot wrap.
RECURSIVE chunk_loop(_, _, _, _, _)
chunk_loop(total_size, chunk_size_bytes, offset, index, chunks) ==
    IF offset < total_size
    THEN LET remaining == total_size - offset
             size == IF remaining < chunk_size_bytes THEN remaining ELSE chunk_size_bytes
         IN chunk_loop(total_size, chunk_size_bytes, offset + size, index + 1,
                       Append(chunks, Chunk(index, offset, size)))
    ELSE chunks

make_chunk_plan(total_size, chunk_size_bytes) ==
    [chunk_size_bytes |-> chunk_size_bytes,
     chunks |-> IF chunk_size_bytes = 0 THEN <<>>
                ELSE chunk_loop(total_size, chunk_size_bytes, 0, 0, <<>>)]

----------------------------------------------------------------------------
\* Specifications.  Each one moves its own variables and holds the others at
\* their idle values.

NoStep == [ok |-> FALSE, err |-> NoErr, report_root |-> None, report |-> None]
NotValidated == [done |-> FALSE, err |-> NoErr]

FnIdle == fn_args = <<>> /\ fn_ret = None
ReportIdle ==
    /\ bundle_in = None /\ bundle = NoFiles /\ report_pc = "idle"
    /\ tamper = None /\ verify_key = None /\ verify_ret = None
PackIdle ==
    /\ pack_in = None /\ pack_pc = "idle" /\ pack_started = <<>> /\ pack_err = "" /\ pack_report = FALSE
PatchIdle ==
    /\ patch_in = None /\ plist_file = None /\ patch_log = <<>>
MountIdle ==
    /\ iso_pc = "idle" /\ iso_letters = {} /\ iso_before = {} /\ iso_handle = "none" /\ iso_attached = FALSE /\ iso_polls = 0
IoIdle ==
    /\ io_op = "none" /\ io_in = None /\ io_pc = "idle" /\ io_plan = <<>>
    /\ io_fed = <<>> /\ io_calls = <<>> /\ io_written = 0 /\ io_ret = None
UsbIdle ==
    /\ usb_pc = "idle" /\ usb_disk = 0 /\ usb_volumes = {} /\ usb_before = {} /\ usb_polls = 0
    /\ usb_letter = None /\ usb_formatted = {} /\ usb_ret = None
LibIdle == FnIdle /\ ReportIdle /\ PackIdle /\ PatchIdle /\ MountIdle /\ IoIdle /\ UsbIdle

GateIdle == ctx = SafetyContext(FALSE, None) /\ is_system_arg = FALSE /\ decision = NoDecision
StepIdle ==
    /\ host_os = "linux" /\ graph = <<>> /\ sp = [action |-> "none"]
    /\ step_pc = "idle" /\ step_result = NoResult
RunIdle ==
    /\ definition = <<>> /\ run_pc = "idle" /\ started = <<>> /\ results = <<>>
    /\ run_err = NoErr /\ parent_report = None /\ entry_point = "plain"
    /\ last_step = NoStep /\ validation = NotValidated

GateTokens == {None} \cup {Some(t) : t \in SeqsUpTo(TokenAlphabet, MaxTokenLen) \cup {TokBAD}}

GateInit ==
    /\ ctx \in {SafetyContext(f, t) : f \in BOOLEAN, t \in GateTokens}
    /\ is_system_arg \in BOOLEAN
    /\ decision = NoDecision
    /\ StepIdle /\ RunIdle /\ LibIdle

CallGate ==
    /\ decision = NoDecision
    /\ decision' = can_write_to_disk(ctx, is_system_arg)
    /\ UNCHANGED <<libVars, ctx, is_system_arg, stepVars, runVars>>

GateNext == CallGate
SpecGate == GateInit /\ [][GateNext]_vars

StepInit ==
    /\ host_os \in {"windows", "linux", "macos"}
    /\ graph \in Graphs(host_os)
    /\ sp \in StepParams(host_os)
    /\ step_pc = "ready"
    /\ step_result = NoResult
    /\ GateIdle /\ RunIdle /\ LibIdle

Execute ==
    /\ step_pc = "ready"
    /\ \E e \in Envs(sp.action) : step_result' = RunStep(sp, graph, host_os, e)
    /\ step_pc' = "done"
    /\ UNCHANGED <<libVars, host_os, graph, sp, gateVars, runVars>>

StepNext == Execute
SpecStep == StepInit /\ [][StepNext]_vars

\* validate_workflow_definition on its own: the definitions a caller may hand
\* it, on each host.
MaxDefLen == 2
ID_a == <<"a">>
ID_b == <<"b">>
StepIds == {<<>>, <<" ">>, ID_a, ID_b}
DISK_X == <<"X">>

\* action and params of a step: each action with its required keys, with a
\* key missing, with a key of the wrong type, and actions the engine lacks
ValidateCatalogue ==
    {<<"disk_hash_report", [disk_id |-> JChars(DISK_X)]>>,
     <<"disk_hash_report", [disk |-> JChars(DISK_X)]>>,
     <<"report_verify", [path |-> JStr("/tmp/r")]>>,
     <<"report_verify", NoParams>>,
     <<"report_verify", [path |-> JNum(1)]>>,
     <<"windows_installer_usb", [target_disk_id |-> JChars(PD1), source_path |-> JStr("win_full")]>>,
     <<"windows_apply_image",
       [source_path |-> JStr("install.wim"), image_index |-> JNum(1), target_dir |-> JChars(W_E)]>>,
     <<"windows_apply_image",
       [source_path |-> JStr("install.wim"), image_index |-> JChars(<<"1">>),
        target_dir |-> JChars(W_E)]>>,
     <<"linux_installer_usb", [source_path |-> JStr("linux_grub"), target_mount |-> JChars(P_u)]>>,
     <<"macos_installer_usb", [source_path |-> JStr("mac_boot"), target_mount |-> JChars(P_Volumes_U)]>>,
     <<"macos_installer_usb", [source_path |-> JStr("installer.app"),
                               target_device |-> JChars(DEV_disk2)]>>,
     <<"linux_write_image", [source_image |-> JStr("image.img"), target_device |-> JChars(DEV_sdb)]>>,
     <<"macos_write_image", [source_image |-> JStr("image.img")]>>,
     <<"linux_boot_prep", [source_path |-> JStr("linux_grub"), target_mount |-> JChars(P_u)]>>,
     <<"macos_boot_prep", [target_mount |-> JChars(P_Volumes_U)]>>,
     <<"stage_bootloader", [source_path |-> JBool(TRUE), target_mount |-> JChars(P_u)]>>,
     <<"macos_legacy_patch", [source_path |-> JStr("installer.app")]>>,
     <<"macos_kext_stage", [source |-> JStr("kexts"), target_mount |-> JChars(P_Volumes_U)]>>,
     <<"frobnicate", NoParams>>}

ValidateSteps == {WorkflowStep(id, c[1], c[2]) : id \in StepIds, c \in ValidateCatalogue}

ValidateInit ==
    /\ host_os \in {"windows", "linux", "macos"}
    /\ \/ definition \in {WorkflowDefinition(WORKFLOW_SCHEMA_VERSION, steps) :
                             steps \in SeqsUpTo(ValidateSteps, MaxDefLen)}
       \/ definition \in {WorkflowDefinition("2.0.0", <<s>>) : s \in ValidateSteps}
    /\ validation = NotValidated
    /\ GateIdle /\ LibIdle
    /\ graph = <<>> /\ sp = [action |-> "none"] /\ step_pc = "idle" /\ step_result = NoResult
    /\ run_pc = "idle" /\ started = <<>> /\ results = <<>> /\ run_err = NoErr
    /\ parent_report = None /\ entry_point = "plain" /\ last_step = NoStep

Validate ==
    /\ ~validation.done
    /\ validation' = [done |-> TRUE, err |-> validate_workflow_definition(definition, host_os)]
    /\ UNCHANGED <<libVars, gateVars, stepVars, definition, run_pc, started, results, run_err,
                   parent_report, entry_point, last_step>>

ValidateNext == Validate
SpecValidate == ValidateInit /\ [][ValidateNext]_vars

\* A workflow run: run_workflow_definition (entry_point "plain") or
\* run_workflow_definition_with_report, on definitions of steps that suit the
\* host.
ID_c == <<"c">>
RunIds == {ID_a, ID_b, ID_c}
Execute3 == [force |-> JBool(TRUE), confirmation_token |-> JChars(TokPHXx),
             dry_run |-> JBool(FALSE)]
WithKeys(params, more) ==
    [k \in DOMAIN params \cup DOMAIN more |-> IF k \in DOMAIN more THEN more[k] ELSE params[k]]

RunCatalogue(os) ==
    {<<"report_verify", [path |-> JStr("/tmp/r")]>>,
     <<"report_verify", [path |-> JStr("/tmp/tampered")]>>,
     <<"report_verify", [path |-> JStr("/tmp/signed"), signing_key |-> JChars(KEY_ab)]>>,
     <<"stage_bootloader",
       [source_path |-> JStr("efi_only"),
        target_mount |-> JChars(IF os = "windows" THEN W_E ELSE P_u),
        dry_run |-> JBool(FALSE)]>>}
    \cup
    CASE os = "windows" ->
        {<<"windows_installer_usb",
           WithKeys([target_disk_id |-> JChars(PD1), source_path |-> JStr("win_full"),
                     target_mount |-> JChars(W_e)], Execute3)>>,
         <<"windows_installer_usb",
           [target_disk_id |-> JChars(PD1), source_path |-> JStr("win_full"),
            filesystem |-> JChars(FS_ext4)]>>,
         <<"windows_apply_image",
           [source_path |-> JStr("install.wim"), image_index |-> JNum(1),
            target_dir |-> JChars(W_E)]>>,
         <<"disk_hash_report", [disk_id |-> JChars(pd1)]>>}
      [] os = "linux" ->
        {<<"linux_write_image",
           WithKeys([source_image |-> JStr("image.img"), target_device |-> JChars(DEV_sdb)],
                    Execute3)>>,
         <<"linux_installer_usb",
           [source_path |-> JStr("linux_grub"), target_mount |-> JChars(P_u)]>>,
         <<"linux_boot_prep",
           [source_path |-> JStr("linux_grub"), target_mount |-> JChars(P_d)]>>,
         <<"disk_hash_report", [disk_id |-> JChars(<<"s", "d", "b">>)]>>}
      [] os = "macos" ->
        {<<"macos_legacy_patch", [source_path |-> JStr("installer.app")]>>,
         <<"macos_legacy_patch",
           WithKeys([source_path |-> JStr("installer.app"), model |-> JStr("iMac9,1")],
                    Execute3)>>,
         <<"macos_installer_usb",
           [source_path |-> JStr("mac_boot"), target_mount |-> JChars(P_Volumes_U)]>>,
         <<"macos_write_image",
           [source_image |-> JStr("image.img"), target_device |-> JChars(DEV_disk2)]>>,
         <<"macos_boot_prep",
           [source_path |-> JStr("mac_boot"), target_mount |-> JChars(P_Volumes_U)]>>,
         <<"disk_hash_report", [disk_id |-> JChars(<<"d", "i">>)]>>}

RunSteps(os) == {WorkflowStep(id, c[1], c[2]) : id \in RunIds, c \in RunCatalogue(os)}

\* the calls of a step that the environment can make fail
RunEnvs(action) ==
    CASE HandlerOf(action) = "report_verify" -> {Env("none", 1, "ok"), Env("read", 1, "ok")}
      [] HandlerOf(action) = "disk_hash_report" ->
            {Env(f, 1, "ok") : f \in {"none", "graph", "hash", "report"}}
      [] HandlerOf(action) = "none" -> {Env("none", 1, "ok")}
      [] OTHER -> Envs(HandlerOf(action))

\* steps that validate_step rejects on every host: an action the engine
\* lacks, and a known action without its required keys
InvalidLastSteps ==
    {WorkflowStep(<<"z">>, "erase_everything", NoParams),
     WorkflowStep(<<"z">>, "stage_bootloader", [source_path |-> JStr("efi_only")])}

RunInit ==
    /\ host_os \in {"windows", "linux", "macos"}
    /\ graph \in Graphs(host_os)
    /\ \/ definition \in {WorkflowDefinition(WORKFLOW_SCHEMA_VERSION, steps) :
                             steps \in SeqsUpTo(RunSteps(host_os), MaxDefLen)}
       \/ definition \in {WorkflowDefinition("2.0.0", <<s>>) : s \in RunSteps(host_os)}
       \/ definition \in {WorkflowDefinition(WORKFLOW_SCHEMA_VERSION, <<s, bad>>) :
                             s \in RunSteps(host_os), bad \in InvalidLastSteps}
    /\ entry_point \in {"plain", "with_report"}
    /\ run_pc = "ready"
    /\ started = <<>> /\ results = <<>> /\ run_err = NoErr /\ parent_report = None
    /\ last_step = NoStep /\ validation = NotValidated
    /\ GateIdle /\ LibIdle
    /\ sp = [action |-> "none"] /\ step_pc = "idle" /\ step_result = NoResult

\* the run started without looking at the outcome of the validation
ValidateDefinition_unchecked ==
    /\ run_pc = "ready"
    /\ LET err == validate_workflow_definition(definition, host_os)
       IN /\ validation' = [done |-> TRUE, err |-> err]
          /\ run_err' = NoErr
          /\ run_pc' = "running"
    /\ UNCHANGED <<libVars, gateVars, stepVars, definition, started, results, parent_report,
                   entry_point, last_step>>

\* validate_workflow_definition(definition)?, which both entry points call
\* first (with_report calls it again through run_workflow_definition)
ValidateDefinition ==
    /\ run_pc = "ready"
    /\ LET err == validate_workflow_definition(definition, host_os)
       IN /\ validation' = [done |-> TRUE, err |-> err]
          /\ run_err' = err
          /\ run_pc' = IF err = NoErr THEN "running" ELSE "done"
    /\ UNCHANGED <<libVars, gateVars, stepVars, definition, started, results, parent_report,
                   entry_point, last_step>>

\* where the run goes once the loop is over: Ok(results) to the caller, or on
\* to the parent report
AfterLoop == IF entry_point = "with_report" THEN "reporting" ELSE "done"

\* one iteration of the loop that goes on after a failing step
RunNextStep_keep_going ==
    /\ run_pc = "running"
    /\ Len(started) < Len(definition.steps)
    /\ LET i == Len(started) + 1
           step == definition.steps[i]
           written == Cardinality({k \in DOMAIN results : results[k].report_root.some})
       IN \E e \in RunEnvs(step.action) : \E r \in {dispatch_step(step, graph, host_os, e)} :
            LET root == IF r.report.some THEN Some(ReportRoot(written + 1)) ELSE None
            IN /\ started' = Append(started, i)
               /\ last_step' = [ok |-> r.ok, err |-> r.err, report_root |-> root,
                                report |-> r.report]
               /\ results' = IF r.ok
                             THEN Append(results, WorkflowStepResult(step.id, step.action, root))
                             ELSE results
               /\ run_err' = IF r.ok \/ run_err # NoErr THEN run_err ELSE r.err
               /\ run_pc' = IF i = Len(definition.steps) THEN AfterLoop ELSE "running"
    /\ UNCHANGED <<libVars, gateVars, stepVars, definition, parent_report, entry_point, validation>>

\* One iteration of `for step in &definition.steps`: the next step in
\* declaration order is dispatched; its error is returned at once, its success
\* is pushed to results.
RunNextStep ==
    /\ run_pc = "running"
    /\ Len(started) < Len(definition.steps)
    /\ LET i == Len(started) + 1
           step == definition.steps[i]
           written == Cardinality({k \in DOMAIN results : results[k].report_root.some})
       IN \E e \in RunEnvs(step.action) : \E r \in {dispatch_step(step, graph, host_os, e)} :
            LET root == IF r.report.some THEN Some(ReportRoot(written + 1)) ELSE None
            IN /\ started' = Append(started, i)
               /\ last_step' = [ok |-> r.ok, err |-> r.err, report_root |-> root,
                                report |-> r.report]
               /\ IF r.ok
                  THEN /\ results' = Append(results,
                                            WorkflowStepResult(step.id, step.action, root))
                       /\ run_err' = run_err
                       /\ run_pc' = IF i = Len(definition.steps) THEN AfterLoop ELSE "running"
                  ELSE /\ results' = results
                       /\ run_err' = r.err
                       /\ run_pc' = "done"
    /\ UNCHANGED <<libVars, gateVars, stepVars, definition, parent_report, entry_point, validation>>

\* "steps" of the parent report's meta: one object per WorkflowStepResult
step_meta(steps) ==
    [i \in DOMAIN steps |->
        [id |-> steps[i].id, action |-> steps[i].action, report_root |-> steps[i].report_root]]

\* the parent report written whatever the run returned
WriteParentReport_after_failure ==
    /\ run_pc \in {"reporting", "done"}
    /\ entry_point = "with_report"
    /\ parent_report = None
    /\ parent_report' = Some([meta |-> [workflow |-> definition.name,
                                        schema_version |-> definition.schema_version,
                                        steps |-> step_meta(results)]])
    /\ run_pc' = "done"
    /\ UNCHANGED <<libVars, gateVars, stepVars, definition, started, results, run_err, entry_point,
                   last_step, validation>>

\* The rest of run_workflow_definition_with_report after the `?` on the steps:
\* build_device_graph()?, then the parent bundle with the steps' meta.
WriteParentReport ==
    /\ run_pc = "reporting"
    /\ \E fault \in {"none", "graph", "report"} :
        /\ run_err' = CASE fault = "graph" -> WfErr("build_device_graph failed", <<>>)
                        [] fault = "report" -> WfErr("report bundle i/o error", <<>>)
                        [] OTHER -> run_err
        /\ parent_report' =
                IF fault = "none"
                THEN Some([meta |-> [workflow |-> definition.name,
                                     schema_version |-> definition.schema_version,
                                     steps |-> step_meta(results)]])
                ELSE None
    /\ run_pc' = "done"
    /\ UNCHANGED <<libVars, gateVars, stepVars, definition, started, results, entry_point,
                   last_step, validation>>

RunNext == ValidateDefinition \/ RunNextStep \/ WriteParentReport
SpecRun == RunInit /\ [][RunNext]_vars

\* make_chunk_plan on its own
MaxPlanTotal == 12
MaxPlanChunk == 5

PlanInit ==
    /\ fn_args \in (0..MaxPlanTotal) \X (0..MaxPlanChunk)
    /\ fn_ret = None
    /\ GateIdle /\ StepIdle /\ RunIdle /\ UsbIdle /\ IoIdle /\ MountIdle /\ PatchIdle /\ PackIdle /\ ReportIdle

CallMakeChunkPlan ==
    /\ ~fn_ret.some
    /\ fn_ret' = Some(make_chunk_plan(fn_args[1], fn_args[2]))
    /\ UNCHANGED <<fn_args, reportVars, packVars, patchVars, mountVars, ioVars, usbVars, gateVars, stepVars, runVars>>

PlanNext == CallMakeChunkPlan
SpecPlan == PlanInit /\ [][PlanNext]_vars

\* C1: can_write_to_disk returns Allow exactly when force_mode is true and a
\* confirmation token is present and begins with "PHX-"; every other
\* (token, force_mode) returns Deny, so the five rows of the truth table hold.
BeginsWithPHX(t) ==
    /\ Len(t) >= 4
    /\ t[1] = "P" /\ t[2] = "H" /\ t[3] = "X" /\ t[4] = "-"

GateTruthTable ==
    decision # NoDecision =>
        /\ decision.kind \in {"Allow", "Deny"}
        /\ (decision.kind = "Allow") <=>
              /\ ctx.force_mode
              /\ ctx.confirmation_token.some
              /\ BeginsWithPHX(ctx.confirmation_token.val)
        /\ (ctx = SafetyContext(FALSE, None) => decision.kind = "Deny")
        /\ (ctx = SafetyContext(TRUE, None) => decision.kind = "Deny")
        /\ (ctx = SafetyContext(TRUE, Some(TokBAD)) => decision.kind = "Deny")
        /\ (ctx = SafetyContext(FALSE, Some(TokPHXx)) => decision.kind = "Deny")
        /\ (ctx = SafetyContext(TRUE, Some(TokPHXx)) => decision.kind = "Allow")

GateAllowReached ==
    /\ decision = Allow
    /\ ctx = SafetyContext(TRUE, Some(TokPHXx))

----------------------------------------------------------------------------
\* What the step claims speak about.

GateCalls(r) == SelectSeq(r.events, LAMBDA ev : ev.op = "gate")
Mutations(r) == SelectSeq(r.events, LAMBDA ev : ev.op # "gate")

\* every action whose handler resolves a target disk or path before writing
TargetingActions ==
    {"windows_installer_usb", "windows_apply_image", "unix_installer_usb",
     "unix_write_image", "macos_installer_usb", "stage_bootloader", "unix_boot_prep"}
DestructiveActions == TargetingActions \cup {"legacy_patch"}

\* a path lies under a mount point
PathUnder(path, mount) ==
    \/ path = mount
    \/ starts_with(path, IF ends_with(mount, <<"/">>) \/ ends_with(mount, <<"\\">>)
                         THEN mount ELSE mount \o <<"/">>)

\* the disk holding a path: the one with the longest mount point above it
PathOnSystemDisk(path, g) ==
    LET above == {m \in UNION {Range(DiskMounts(g[i])) : i \in DOMAIN g} :
                     PathUnder(path, m)}
        owner == CHOOSE m \in above : \A o \in above : Len(o) <= Len(m)
    IN above # {} /\ \E i \in DOMAIN g : g[i].is_system_disk /\ owner \in Range(DiskMounts(g[i]))

\* the step's target lies on a disk whose is_system_disk flag is set
TargetOnSystemDisk(p, g) ==
    CASE p.action = "windows_installer_usb" ->
            \E i \in DOMAIN g : g[i].is_system_disk
                                /\ eq_ignore_ascii_case(g[i].id, p.target_disk_id)
      [] p.action = "windows_apply_image" ->
            \E i \in DOMAIN g : g[i].is_system_disk /\ \E m \in Range(DiskMounts(g[i])) :
                to_ascii_uppercase(SubSeq(m, 1, 2)) = to_ascii_uppercase(SubSeq(p.target_dir, 1, 2))
      [] p.action \in {"unix_installer_usb", "stage_bootloader", "unix_boot_prep"} ->
            PathOnSystemDisk(normalize_mount_for_unix(p.target_mount), g)
      [] p.action \in {"unix_write_image", "macos_installer_usb"} ->
            \E i \in DOMAIN g : g[i].is_system_disk
                                /\ starts_with(last_component(p.target_device), g[i].id)
      [] OTHER -> FALSE

\* C2: for every destructive action, a step whose target lies on a disk with
\* is_system_disk set is refused and nothing is written to the target,
\* whatever force, confirmation_token and dry_run are.
SystemTargetRefused ==
    (step_pc = "done" /\ sp.action \in TargetingActions /\ TargetOnSystemDisk(sp, graph))
        => (~step_result.ok /\ Mutations(step_result) = <<>>)

\* the same, for every action but windows_apply_image
SystemTargetRefusedElsewhere ==
    (step_pc = "done" /\ sp.action \in TargetingActions \ {"windows_apply_image"}
        /\ TargetOnSystemDisk(sp, graph))
        => (~step_result.ok /\ step_result.events = <<>>)

\* the second half of C2 on its own: nothing is written to a system target
SystemTargetNeverWritten ==
    (step_pc = "done" /\ sp.action \in TargetingActions /\ TargetOnSystemDisk(sp, graph))
        => Mutations(step_result) = <<>>

\* C3: a step of a destructive action with dry_run = TRUE never calls
\* can_write_to_disk, so its outcome is the same for every force and
\* confirmation_token (legacy_patch included).
DryRunNeverCallsGate ==
    /\ (step_pc = "done" /\ sp.action \in DestructiveActions /\ sp.dry_run)
          => GateCalls(step_result) = <<>>
    /\ (step_pc = "ready" /\ sp.action \in DestructiveActions /\ sp.dry_run)
          => \A e \in Envs(sp.action) : \A a \in SafetyArgs :
                RunStep([sp EXCEPT !.force = a.force, !.confirmation_token = a.token],
                        graph, host_os, e)
                = RunStep(sp, graph, host_os, e)

\* the errors of the precondition checks: boot files, filesystem, FAT32 file
\* size, free space, source, plist
PreconditionErrors ==
    {"missing sources/boot.wim in installer source",
     "missing EFI bootloader in installer source",
     "linux source missing EFI/BOOT, boot/grub, or isolinux",
     "macos source missing System/Library/CoreServices/boot.efi or EFI/BOOT",
     "no boot prep candidates found in source",
     "bootloader root is not a directory",
     "bootloader package missing EFI/BOOT/*.EFI entries",
     "unsupported filesystem for staging",
     "FAT32 cannot store files > 4GB",
     "insufficient free space",
     "unsupported source path",
     "source missing setup.exe",
     "install.wim or install.esd not found in source",
     "unsupported image file type",
     "install macOS.app not found in source"}

\* C4: whenever a precondition check of a step fails, the step fails without
\* can_write_to_disk having been called; a Windows installer source without
\* sources/boot.wim fails with "missing sources/boot.wim in installer source"
\* before the gate is consulted.
PreconditionFailsBeforeGate ==
    /\ (step_pc = "done" /\ ~step_result.ok /\ step_result.err \in PreconditionErrors)
          => GateCalls(step_result) = <<>>
    /\ (step_pc = "done" /\ sp.action = "windows_installer_usb"
          /\ sp.source_path = "win_no_bootwim"
          /\ step_result.err \notin {"build_device_graph failed", "disk not found",
                                      "refusing to target system disk",
                                      "target disk is not marked removable",
                                      "target_mount does not belong to disk",
                                      "unsupported filesystem for staging",
                                      "read source failed"})
          => /\ step_result.err = "missing sources/boot.wim in installer source"
             /\ step_result.events = <<>>

\* the boot.wim half of C4 on its own
MissingBootWimFailsBeforeGate ==
    (step_pc = "done" /\ step_result.err = "missing sources/boot.wim in installer source")
        => (~step_result.ok /\ step_result.events = <<>>)

\* C5: in execute mode of every destructive action the gate is consulted
\* before the first mutating operation on the target, and if it returns Deny
\* the step fails with the gate's reason and no mutating operation was made.
GateBeforeFirstMutation ==
    (step_pc = "done" /\ sp.action \in DestructiveActions /\ ~sp.dry_run) =>
        LET ev == step_result.events
        IN /\ \A i \in DOMAIN ev :
                 ev[i].op # "gate" => \E j \in 1..(i - 1) : ev[j].op = "gate"
           /\ \A i \in DOMAIN ev :
                 (ev[i].op = "gate" /\ ev[i].decision.kind = "Deny") =>
                     /\ ~step_result.ok
                     /\ step_result.err = ev[i].decision.reason
                     /\ Mutations(step_result) = <<>>
           /\ step_result.ok => GateCalls(step_result) # <<>>

\* an execute-mode raw write that the gate allowed, and one that it denied
GateAllowedWriteReached ==
    /\ step_pc = "done" /\ sp.action = "unix_write_image" /\ ~sp.dry_run
    /\ step_result.ok
    /\ Len(step_result.events) = 2
    /\ step_result.events[1].op = "gate"
    /\ step_result.events[1].decision = Allow
    /\ step_result.events[2].op = "raw_write"

\* C6: for installer_usb, write_image, boot_prep and stage_bootloader steps, a
\* resolved target disk with removable = FALSE makes the step fail before the
\* gate is consulted and before any write to the target, whatever force,
\* confirmation_token and dry_run are.
ResolvedDisk(p, g) ==
    CASE p.action = "windows_installer_usb" ->
            FirstIdx(g, LAMBDA d : eq_ignore_ascii_case(d.id, p.target_disk_id))
      [] p.action \in {"unix_installer_usb", "stage_bootloader", "unix_boot_prep"} ->
            IF target_is_dir(normalize_mount_for_unix(p.target_mount), g)
            THEN find_disk_by_mount(g, p.target_mount) ELSE 0
      [] p.action \in {"unix_write_image", "macos_installer_usb"} ->
            IF disk_id_from_device_path(p.target_device).some
            THEN FirstIdx(g, LAMBDA d : eq_ignore_ascii_case(
                                d.id, disk_id_from_device_path(p.target_device).val))
            ELSE 0
      [] OTHER -> 0

NonRemovableRefusedBeforeGate ==
    (/\ step_pc = "done"
     /\ sp.action \in TargetingActions \ {"windows_apply_image"}
     /\ ResolvedDisk(sp, graph) # 0
     /\ ~graph[ResolvedDisk(sp, graph)].removable)
        => (~step_result.ok /\ step_result.events = <<>>)

\* a fixed, non-system disk refused although force and a valid token were
\* given in execute mode
NonRemovableRefusedReached ==
    /\ step_pc = "done" /\ sp.action = "stage_bootloader"
    /\ sp.force /\ sp.confirmation_token = Some(TokPHXx) /\ ~sp.dry_run
    /\ ResolvedDisk(sp, graph) # 0
    /\ ~graph[ResolvedDisk(sp, graph)].removable
    /\ ~graph[ResolvedDisk(sp, graph)].is_system_disk
    /\ step_result.err = "target disk is not marked removable"
    /\ step_result.events = <<>>

\* the counts a report's meta carries
ReportsZeroCounts(meta) ==
    \A k \in DOMAIN meta \cap {"copied_files", "copied_bytes", "driver_files",
                               "driver_bytes", "bytes_written", "file_count", "total_bytes"} :
        meta[k] = 0

\* C7: a destructive step run with dry_run = TRUE performs no partitioning,
\* formatting, file copy, raw device write or plist rewrite on its target,
\* reports zero copied/written bytes and files, and still writes its report
\* bundle: it writes one whenever the same step with force and a valid token
\* would.
DryRunWritesOnlyReport ==
    /\ (step_pc = "done" /\ sp.action \in DestructiveActions /\ sp.dry_run) =>
          /\ Mutations(step_result) = <<>>
          /\ step_result.ok => /\ step_result.report.some
                               /\ ReportsZeroCounts(step_result.report.val.meta)
    /\ (step_pc = "ready" /\ sp.action \in DestructiveActions /\ sp.dry_run) =>
          \A e \in Envs(sp.action) :
              RunStep([sp EXCEPT !.force = TRUE, !.confirmation_token = Some(TokPHXx)],
                      graph, host_os, e).report.some
              => RunStep(sp, graph, host_os, e).report.some

\* the first half of C7 on its own: no mutation and zero counts in dry-run
DryRunMutatesNothing ==
    (step_pc = "done" /\ sp.action \in DestructiveActions /\ sp.dry_run) =>
        /\ Mutations(step_result) = <<>>
        /\ step_result.ok => /\ step_result.report.some
                             /\ ReportsZeroCounts(step_result.report.val.meta)

----------------------------------------------------------------------------
\* the step started last returned an error
StepFailed == started # <<>> /\ ~last_step.ok

\* C8: run_workflow_definition starts the steps strictly in the order they
\* are declared; once a step fails (a report_verify step whose verification is
\* not ok included) no later step is started and no step is started again, and
\* the error returned is that of the first failing step.
StepsInOrderFailFast ==
    /\ [](/\ started = [i \in 1..Len(started) |-> i]
          /\ Len(started) <= Len(definition.steps)
          /\ StepFailed =>
                /\ run_pc = "done"
                /\ run_err = last_step.err
                /\ Len(results) = Len(started) - 1
          /\ (started # <<>> /\ last_step.ok) => Len(results) = Len(started)
          /\ \A i \in DOMAIN results :
                /\ results[i].id = definition.steps[i].id
                /\ results[i].action = definition.steps[i].action
          /\ (/\ started # <<>>
              /\ definition.steps[Len(started)].action = "report_verify"
              /\ definition.steps[Len(started)].params["path"] = JStr("/tmp/tampered")
              /\ last_step.err # WfErr("report bundle i/o error", <<>>)) =>
                /\ StepFailed
                /\ run_err = WfErr("report verification failed", <<>>))
    /\ [][/\ started' # started => started' = Append(started, Len(started) + 1)
          /\ StepFailed => (started' = started /\ run_err' = run_err /\ results' = results)]_vars

\* the first of two steps was a report_verify of a bundle that does not
\* verify: the run is over and the second step was never started
RunStoppedAtFailedVerify ==
    /\ run_pc = "done"
    /\ Len(definition.steps) = 2
    /\ started = <<1>>
    /\ definition.steps[1].action = "report_verify"
    /\ run_err = WfErr("report verification failed", <<>>)
    /\ results = <<>>

\* C9: run_workflow_definition_with_report writes the parent report only
\* after every step of the definition has succeeded; the report's steps list
\* then has exactly one entry per step, in declaration order; when a step
\* fails no parent report is written.
ParentReportOnlyAfterAllSteps ==
    /\ parent_report.some =>
        /\ entry_point = "with_report"
        /\ run_err = NoErr
        /\ Len(started) = Len(definition.steps)
        /\ Len(results) = Len(definition.steps)
        /\ last_step.ok
        /\ LET listed == parent_report.val.meta.steps
           IN /\ Len(listed) = Len(definition.steps)
              /\ \A i \in DOMAIN listed :
                    /\ listed[i].id = definition.steps[i].id
                    /\ listed[i].action = definition.steps[i].action
    /\ StepFailed => parent_report = None
    /\ run_err # NoErr => parent_report = None

\* a parent report was written for a definition of two steps
ParentReportWritten ==
    /\ parent_report.some
    /\ Len(definition.steps) = 2
    /\ run_pc = "done"

----------------------------------------------------------------------------
\* The actions validate_step knows, each with the parameters it requires.
RequiredParams ==
    [windows_installer_usb |-> {"target_disk_id", "source_path"},
     windows_apply_image |-> {"source_path", "image_index", "target_dir"},
     linux_installer_usb |-> {"source_path", "target_mount"},
     macos_installer_usb |-> {"source_path", "target_mount"},
     linux_write_image |-> {"source_image", "target_device"},
     macos_write_image |-> {"source_image", "target_device"},
     linux_boot_prep |-> {"source_path", "target_mount"},
     macos_boot_prep |-> {"source_path", "target_mount"},
     stage_bootloader |-> {"source_path", "target_mount"},
     macos_legacy_patch |-> {"source_path"},
     disk_hash_report |-> {"disk_id"},
     report_verify |-> {"path"}]
KnownActions == DOMAIN RequiredParams

Accepted == validation.done /\ validation.err = NoErr
Rejected == validation.done /\ validation.err # NoErr

\* the definition of the duplicate-id scenario, with second_id as the id of
\* its second step
DuplicateScenario(second_id) ==
    WorkflowDefinition("1.0.0",
        <<WorkflowStep(ID_a, "disk_hash_report", [disk_id |-> JChars(DISK_X)]),
          WorkflowStep(second_id, "report_verify", [path |-> JStr("/tmp/r")])>>)

\* C10: validate_workflow_definition accepts a definition only if every step
\* id is non-empty, no two steps share an id, every action is a known action
\* and every required parameter of each step is present; the definition whose
\* two steps both have id "a" is rejected with "duplicate step id a", and it is
\* accepted once the second id is "b".
ValidationAcceptsOnlyWellFormed ==
    LET steps == definition.steps
    IN /\ Accepted =>
            /\ \A i \in DOMAIN steps : steps[i].id # <<>>
            /\ \A i, j \in DOMAIN steps : i # j => steps[i].id # steps[j].id
            /\ \A i \in DOMAIN steps : steps[i].action \in KnownActions
            /\ \A i \in DOMAIN steps :
                    RequiredParams[steps[i].action] \subseteq DOMAIN steps[i].params
       /\ (validation.done /\ definition = DuplicateScenario(ID_a)) =>
            validation.err = WfErr("duplicate step id ", ID_a)
       /\ (validation.done /\ definition = DuplicateScenario(ID_b)) => Accepted

\* a two-step definition was accepted, here the scenario's corrected one
TwoStepDefinitionAccepted ==
    Accepted /\ definition = DuplicateScenario(ID_b)

----------------------------------------------------------------------------
\* C11: for every total and every chunk size > 0, make_chunk_plan returns
\* chunks whose sizes sum to total, whose offsets are the running sums of the
\* preceding sizes, whose indices are 0, 1, 2, ... and whose count is
\* ceil(total / chunk); plan(10, 3) is [{0,0,3},{1,3,3},{2,6,3},{3,9,1}].
ChunkPlanCoversTotal ==
    (fn_ret.some /\ fn_args[2] > 0) =>
        LET total == fn_args[1]
            chunk == fn_args[2]
            chunks == fn_ret.val.chunks
            sizes == [i \in DOMAIN chunks |-> chunks[i].size]
        IN /\ SumSeq(sizes) = total
           /\ \A i \in DOMAIN chunks :
                /\ chunks[i].offset = SumSeq(SubSeq(sizes, 1, i - 1))
                /\ chunks[i].index = i - 1
           /\ Len(chunks) = (total + chunk - 1) \div chunk
           /\ (total = 10 /\ chunk = 3) =>
                chunks = <<Chunk(0, 0, 3), Chunk(1, 3, 3), Chunk(2, 6, 3), Chunk(3, 9, 1)>>

\* the plan of 10 bytes in chunks of 3 was made
PlanOfTenByThreeMade == fn_ret.some /\ fn_args = <<10, 3>>

----------------------------------------------------------------------------
\* A report bundle is created, a file of it may be changed behind the crate's
\* back, and the bundle is verified.
MaxArtifacts == 1

KEY_AB == <<"A", "B">>
KEY_ab00 == <<"a", "b", "0", "0">>
KEY_cd == <<"c", "d">>
KEY_odd == <<"a">>
KEY_zz == <<"z", "z">>
SigningKeys == {None, Some(KEY_ab), Some(KEY_AB), Some(KEY_ab00), Some(KEY_cd),
                Some(KEY_odd), Some(KEY_zz)}

N_with_slash == <<"a", "/", "b">>
ArtifactCatalogue ==
    {ReportArtifact(N_disk_hashes, <<5>>), ReportArtifact(N_run, <<6, 6>>),
     ReportArtifact(N_manifest, <<5>>), ReportArtifact(N_sig, <<5>>),
     ReportArtifact(N_with_slash, <<5>>), ReportArtifact(<<>>, <<5>>)}

NoFault == [fault |-> "none"]

\* what can be done to a file from outside: to any file "flip" (a byte
\* changed) and "remove"; to a file of bytes also "append" (a byte added); to
\* the signature text also "uppercase", "pad" (a trailing newline) and
\* "resign" (signed anew under KEY_cd); to the manifest also "unlist" (its
\* last entry dropped)
Tampering(what, name) == [what |-> what, name |-> name]
TamperingsOf(content) ==
    {"flip", "remove"}
    \cup (IF content.kind = "bytes" THEN {"append"} ELSE {})
    \cup (IF content.kind = "hex" THEN {"uppercase", "pad", "resign"} ELSE {})
    \cup (IF content.kind = "manifest" THEN {"unlist"} ELSE {})

Flipped(content) ==
    CASE content.kind = "bytes" ->
             Bytes([i \in DOMAIN content.bytes |->
                        IF i = 1 THEN (content.bytes[i] + 1) % 256 ELSE content.bytes[i]])
      [] content.kind = "hex" -> [content EXCEPT !.digest = [flipped |-> content.digest]]
      [] content.kind = "manifest" -> Bytes(<<0>>)

Tampered(files, what, name) ==
    CASE what = "remove" -> fs_remove(files, name)
      [] what = "flip" -> fs_write(files, name, Flipped(files[name]))
      [] what = "append" -> fs_write(files, name, Bytes(Append(files[name].bytes, 0)))
      [] what = "uppercase" -> fs_write(files, name, [files[name] EXCEPT !.uppercase = TRUE])
      [] what = "pad" -> fs_write(files, name, [files[name] EXCEPT !.padded = TRUE])
      [] what = "resign" ->
             fs_write(files, name,
                      to_hex(hmac_sha256(decode_hex(KEY_cd).bytes, files[N_manifest])))
      [] what = "unlist" ->
             fs_write(files, name,
                      Manifest(SubSeq(files[name].entries, 1, Len(files[name].entries) - 1)))

ReportInit ==
    /\ bundle_in \in {Some([signing_key_hex |-> k, artifacts |-> a]) :
                        k \in SigningKeys, a \in SeqsUpTo(ArtifactCatalogue, MaxArtifacts)}
    /\ bundle = NoFiles /\ report_pc = "start"
    /\ tamper = None /\ verify_key = None /\ verify_ret = None
    /\ FnIdle /\ GateIdle /\ StepIdle /\ RunIdle /\ UsbIdle /\ IoIdle /\ MountIdle /\ PatchIdle /\ PackIdle

CreateBundle ==
    /\ report_pc = "start"
    /\ \E r \in {create_report_bundle(<<1>>, <<2>>, <<3>>, bundle_in.val.signing_key_hex,
                                      bundle_in.val.artifacts)} :
          /\ bundle' = r.files
          /\ report_pc' = IF r.ok THEN "created" ELSE "create_failed"
    /\ UNCHANGED <<bundle_in, tamper, verify_key, verify_ret, fnVars, packVars, patchVars, mountVars, ioVars, usbVars, gateVars,
                   stepVars, runVars>>

TamperFile ==
    /\ report_pc = "created" /\ ~tamper.some
    /\ \E name \in DOMAIN bundle : \E what \in TamperingsOf(bundle[name]) :
          /\ tamper' = Some(Tampering(what, name))
          /\ bundle' = Tampered(bundle, what, name)
    /\ UNCHANGED <<bundle_in, report_pc, verify_key, verify_ret, fnVars, packVars, patchVars, mountVars, ioVars, usbVars, gateVars,
                   stepVars, runVars>>

VerifyBundle ==
    /\ report_pc = "created"
    /\ \E k \in SigningKeys :
          /\ verify_key' = k
          /\ verify_ret' = Some(verify_report_bundle(bundle, k, NoFault))
    /\ report_pc' = "verified"
    /\ UNCHANGED <<bundle_in, bundle, tamper, fnVars, packVars, patchVars, mountVars, ioVars, usbVars, gateVars, stepVars, runVars>>

ReportNext == CreateBundle \/ TamperFile \/ VerifyBundle
SpecReport == ReportInit /\ [][ReportNext]_vars

----------------------------------------------------------------------------
\* the bundle as create_report_bundle left it, and the paths its manifest lists
CreatedBundle ==
    create_report_bundle(<<1>>, <<2>>, <<3>>, bundle_in.val.signing_key_hex,
                         bundle_in.val.artifacts).files
Listed(name) ==
    \E i \in DOMAIN CreatedBundle[N_manifest].entries :
        CreatedBundle[N_manifest].entries[i].path = name
Names(ret, name) == \E i \in DOMAIN ret.mismatches : ret.mismatches[i].path = name

\* C12: a bundle that create_report_bundle produced, with or without a signing
\* key and with any artifacts it accepted, and that nobody changed since,
\* verifies with ok = true and with signature_valid None when it is unsigned
\* and Some(true) when it is signed and verified with the key it was signed with
UnmodifiedBundleVerifies ==
    (/\ report_pc = "verified" /\ ~tamper.some
     /\ (bundle_in.val.signing_key_hex.some => verify_key = bundle_in.val.signing_key_hex))
    => /\ verify_ret.val.is_ok
       /\ verify_ret.val.ok
       /\ verify_ret.val.signature_valid =
              (IF bundle_in.val.signing_key_hex.some THEN Some(TRUE) ELSE None)

SignedBundleNeedsMatchingKey ==
    (report_pc = "verified" /\ N_sig \in DOMAIN bundle)
    => /\ (~verify_key.some => ~verify_ret.val.is_ok)
       /\ (verify_ret.val.is_ok /\ verify_ret.val.ok
             => /\ verify_key.some /\ decode_hex(verify_key.val).ok
                /\ bundle[N_sig].kind = "hex"
                /\ bundle[N_sig].digest =
                       hmac_sha256(decode_hex(verify_key.val).bytes, bundle[N_manifest]))

\* a signature turned into upper case was verified with its key and passed
UppercaseSignaturePassed ==
    /\ report_pc = "verified" /\ tamper = Some(Tampering("uppercase", N_sig))
    /\ verify_key = Some(KEY_AB)
    /\ verify_ret.val.is_ok /\ verify_ret.val.ok

----------------------------------------------------------------------------
\* crates/content: pack manifests, and the `pack run` command of apps/cli.
PACK_SCHEMA_VERSION == "1.0.0"
PackManifest(schema_version, workflows) ==
    [kind |-> "pack", schema_version |-> schema_version, name |-> "pack",
     version |-> "1", workflows |-> workflows]

\* load_pack_manifest
load_pack_manifest(manifest) ==
    IF manifest.schema_version # PACK_SCHEMA_VERSION
    THEN [ok |-> FALSE, err |-> "unsupported pack schema version"]
    ELSE [ok |-> TRUE, err |-> ""]

\* pack_signature_exists: sig is what lies at path.with_extension("sig")
pack_signature_exists(sig) == sig.some

\* verify_pack_manifest that takes any signature file for a valid one
verify_pack_manifest_any(manifest, sig, signing_key_hex) ==
    [is_ok |-> TRUE, err |-> "", valid |-> TRUE]

\* verify_pack_manifest
verify_pack_manifest(manifest, sig, signing_key_hex) ==
    LET key == decode_hex(signing_key_hex)
    IN IF ~key.ok THEN [is_ok |-> FALSE, err |-> key.err, valid |-> FALSE]
       ELSE IF ~sig.some THEN [is_ok |-> FALSE, err |-> "pack signature not found", valid |-> FALSE]
       ELSE [is_ok |-> TRUE, err |-> "",
             valid |-> hex_eq_ignore_ascii_case(hex_trim(sig.val),
                                                to_hex(hmac_sha256(key.bytes, manifest)))]

\* resolve_pack_key: the --key argument, else PHOENIX_PACK_KEY
resolve_pack_key(key, env_key) == IF key.some THEN key ELSE env_key

\* the workflow files of the pack directory: None where there is no file
WorkflowFileAt(path) ==
    CASE path = "ok.json" ->
            Some(WorkflowDefinition(WORKFLOW_SCHEMA_VERSION,
                    <<WorkflowStep(ID_a, "report_verify", [path |-> JStr("/tmp/r")])>>))
      [] path = "fail.json" ->
            Some(WorkflowDefinition(WORKFLOW_SCHEMA_VERSION,
                    <<WorkflowStep(ID_a, "report_verify", [path |-> JStr("/tmp/tampered")])>>))
      [] path = "old.json" ->
            Some(WorkflowDefinition("2.0.0",
                    <<WorkflowStep(ID_a, "report_verify", [path |-> JStr("/tmp/r")])>>))
      [] OTHER -> None

\* resolve_pack_workflows: every workflow file is loaded before any is run
resolve_pack_workflows(manifest) ==
    IF \E i \in DOMAIN manifest.workflows : ~WorkflowFileAt(manifest.workflows[i]).some
    THEN [ok |-> FALSE, err |-> "workflow file i/o error", workflows |-> <<>>]
    ELSE [ok |-> TRUE, err |-> "",
          workflows |-> [i \in DOMAIN manifest.workflows |->
                            WorkflowFileAt(manifest.workflows[i]).val]]

\* the `?` on a call: its error is returned, else the code goes on
Try(err, next) == IF err # NoErr THEN err ELSE next
StepErrOf(r) == IF r.ok THEN NoErr ELSE r.err

\* the `for step in &definition.steps` loop of run_workflow_definition from
\* step i on: the first error, or NoErr
RECURSIVE run_steps(_, _, _, _, _)
run_steps(steps, i, g, os, e) ==
    IF i > Len(steps) THEN NoErr
    ELSE Try(StepErrOf(dispatch_step(steps[i], g, os, e)), run_steps(steps, i + 1, g, os, e))

\* run_workflow_definition_with_report, as `pack run` sees it: Ok or the error
run_workflow_definition_with_report(workflow, g, os, e) ==
    Try(validate_workflow_definition(workflow, os), run_steps(workflow.steps, 1, g, os, e))

----------------------------------------------------------------------------
\* `phoenix pack run`: Commands::PackRun of apps/cli, one action per stage.
MaxPackWorkflows == 2

PackHost == "linux"
PackGraph == LinuxGraph(FALSE)
PackWorkflowPaths == {"ok.json", "fail.json", "old.json", "missing.json"}
PackManifests ==
    {PackManifest(sv, w) : sv \in {PACK_SCHEMA_VERSION, "0.9.0"},
                           w \in SeqsUpTo(PackWorkflowPaths, MaxPackWorkflows)}
PackKeys == {None, Some(KEY_ab), Some(KEY_cd), Some(KEY_zz)}
\* what may lie next to the manifest as its .sig file: nothing, the signature
\* under KEY_ab as sign_pack_manifest writes it or in upper case, the
\* signature under KEY_cd, or bytes that are no signature
PackSignatures(manifest) ==
    {None,
     Some(to_hex(hmac_sha256(decode_hex(KEY_ab).bytes, manifest))),
     Some([to_hex(hmac_sha256(decode_hex(KEY_ab).bytes, manifest)) EXCEPT !.uppercase = TRUE]),
     Some(to_hex(hmac_sha256(decode_hex(KEY_cd).bytes, manifest))),
     Some(Bytes(<<0>>))}

PackInit ==
    /\ \E m \in PackManifests :
          pack_in \in {Some([manifest |-> m, sig |-> s, require_signed |-> r, key |-> k,
                             env_key |-> ek]) :
                          s \in PackSignatures(m), r \in BOOLEAN, k \in PackKeys,
                          ek \in {None, Some(KEY_ab)}}
    /\ pack_pc = "load" /\ pack_started = <<>> /\ pack_err = "" /\ pack_report = FALSE
    /\ FnIdle /\ ReportIdle /\ GateIdle /\ StepIdle /\ RunIdle /\ UsbIdle /\ IoIdle /\ MountIdle /\ PatchIdle

\* let manifest_data = load_pack_manifest(&manifest)?
LoadPack ==
    /\ pack_pc = "load"
    /\ \E r \in {load_pack_manifest(pack_in.val.manifest)} :
          /\ pack_err' = r.err
          /\ pack_pc' = IF r.ok THEN "check" ELSE "done"
    /\ UNCHANGED <<pack_in, pack_started, pack_report, fnVars, reportVars, patchVars, mountVars, ioVars, usbVars, gateVars,
                   stepVars, runVars>>

\* the error of the `if require_signed` block, "" when it lets the run go on
check_pack_signature(p) ==
    LET key == resolve_pack_key(p.key, p.env_key)
        v == verify_pack_manifest(p.manifest, p.sig, key.val)
    IN IF ~p.require_signed THEN ""
       ELSE IF ~pack_signature_exists(p.sig) THEN "pack signature missing"
       ELSE IF ~key.some THEN "pack key required for signature verification"
       ELSE IF ~v.is_ok THEN v.err
       ELSE IF ~v.valid THEN "pack signature invalid"
       ELSE ""

CheckPackSignature ==
    /\ pack_pc = "check"
    /\ \E err \in {check_pack_signature(pack_in.val)} :
          /\ pack_err' = err
          /\ pack_pc' = IF err = "" THEN "resolve" ELSE "done"
    /\ UNCHANGED <<pack_in, pack_started, pack_report, fnVars, reportVars, patchVars, mountVars, ioVars, usbVars, gateVars,
                   stepVars, runVars>>

\* let workflows = resolve_pack_workflows(&manifest)?
ResolvePack ==
    /\ pack_pc = "resolve"
    /\ \E r \in {resolve_pack_workflows(pack_in.val.manifest)} :
          /\ pack_err' = r.err
          /\ pack_pc' = IF ~r.ok THEN "done"
                        ELSE IF r.workflows = <<>> THEN "report" ELSE "run"
    /\ UNCHANGED <<pack_in, pack_started, pack_report, fnVars, reportVars, patchVars, mountVars, ioVars, usbVars, gateVars,
                   stepVars, runVars>>

\* one iteration of `for (path, workflow) in workflows`
RunPackWorkflow ==
    /\ pack_pc = "run"
    /\ \E workflows \in {resolve_pack_workflows(pack_in.val.manifest).workflows} :
       \E i \in {Len(pack_started) + 1} :
       \E e \in {Env("none", 1, "ok"), Env("read", 1, "ok")} :
       \E workflow \in {workflows[i]} : \E g \in {PackGraph} :
       \E err \in {run_workflow_definition_with_report(workflow, g, PackHost, e)} :
          /\ pack_started' = Append(pack_started, i)
          /\ pack_err' = err.msg
          /\ pack_pc' = IF err # NoErr THEN "done"
                        ELSE IF i = Len(workflows) THEN "report" ELSE "run"
    /\ UNCHANGED <<pack_in, pack_report, fnVars, reportVars, patchVars, mountVars, ioVars, usbVars, gateVars, stepVars, runVars>>

\* build_device_graph()?, then the pack report bundle
WritePackReport ==
    /\ pack_pc = "report"
    /\ \E fault \in {"none", "graph", "report"} :
          /\ pack_report' = (fault = "none")
          /\ pack_err' = CASE fault = "graph" -> "build_device_graph failed"
                           [] fault = "report" -> "report bundle i/o error"
                           [] OTHER -> ""
    /\ pack_pc' = "done"
    /\ UNCHANGED <<pack_in, pack_started, fnVars, reportVars, patchVars, mountVars, ioVars, usbVars, gateVars, stepVars, runVars>>

PackNext == LoadPack \/ CheckPackSignature \/ ResolvePack \/ RunPackWorkflow \/ WritePackReport
SpecPack == PackInit /\ [][PackNext]_vars

\* the signature file is there, a key is available, and the file holds, up to
\* the case of its letters, the hex of the HMAC-SHA256 of the manifest's bytes
PackSignatureVerifies ==
    LET p == pack_in.val
        key == resolve_pack_key(p.key, p.env_key)
    IN /\ p.sig.some /\ key.some /\ decode_hex(key.val).ok
       /\ p.sig.val.kind = "hex"
       /\ p.sig.val.digest = hmac_sha256(decode_hex(key.val).bytes, p.manifest)

\* C15: when `pack run` is told to require a signature, a workflow is started
\* only if the signature file exists, a key is available and the HMAC
\* verifies; otherwise the command ends in an error with no workflow started
SignedPackRunsOnlyVerified ==
    (pack_in.some /\ pack_in.val.require_signed)
    => /\ (pack_started # <<>> => PackSignatureVerifies)
       /\ (pack_pc = "done" /\ ~PackSignatureVerifies
             => pack_started = <<>> /\ pack_err # "" /\ ~pack_report)

\* a pack with a required, upper-case signature ran both its workflows
SignedPackRan ==
    /\ pack_in.some /\ pack_in.val.require_signed /\ pack_in.val.sig.some
    /\ pack_in.val.sig.val.kind = "hex" /\ pack_in.val.sig.val.uppercase
    /\ Len(pack_started) = 2 /\ pack_report

----------------------------------------------------------------------------
\* crates/fs-fat32
BYTES_PER_SECTOR == 512
RESERVED_SECTORS == 32
NUM_FATS == 2
ROOT_CLUSTER == 2
FSINFO_SECTOR == 1
BACKUP_BOOT_SECTOR == 6
SPC_CANDIDATES == <<1, 2, 4, 8, 16, 32, 64, 128>>

saturating_sub(a, b) == IF a > b THEN a - b ELSE 0

\* what a function of the crate does: returns Ok(val), returns Err(err), or
\* never returns
FatOk(val) == [status |-> "ok", val |-> val, err |-> ""]
FatErr(err) == [status |-> "err", val |-> 0, err |-> err]
FatHang == [status |-> "hang", val |-> 0, err |-> ""]

\* data_sectors / spc rounded up instead of down
fat_clusters_round_up(total_sectors, spc, fat_size) ==
    (saturating_sub(total_sectors, RESERVED_SECTORS + NUM_FATS * fat_size) + spc - 1) \div spc

\* data_sectors / spc for a FAT of fat_size sectors
fat_clusters(total_sectors, spc, fat_size) ==
    saturating_sub(total_sectors, RESERVED_SECTORS + NUM_FATS * fat_size) \div spc

\* the FAT sectors needed for that many clusters
fat_needed(clusters) == ((clusters + 2) * 4 + (BYTES_PER_SECTOR - 1)) \div BYTES_PER_SECTOR

\* the loop of compute_fat_size: tried holds the values fat_size had before;
\* the next value depends on fat_size alone, so a value that comes again
\* comes again for ever
RECURSIVE fat_size_loop(_, _, _, _)
fat_size_loop(total_sectors, spc, fat_size, tried) ==
    IF fat_size \in tried THEN FatHang
    ELSE IF fat_clusters(total_sectors, spc, fat_size) = 0 THEN FatErr("invalid FAT32 size")
    ELSE IF fat_needed(fat_clusters(total_sectors, spc, fat_size)) = fat_size
    THEN FatOk(fat_size)
    ELSE fat_size_loop(total_sectors, spc,
                       fat_needed(fat_clusters(total_sectors, spc, fat_size)),
                       tried \cup {fat_size})

compute_fat_size(total_sectors, spc) == fat_size_loop(total_sectors, spc, 1, {})

\* whether select_sectors_per_cluster takes the candidate, given its FAT size
in_fat32_range(clusters) == clusters >= 65525 /\ clusters <= 268435445

\* select_sectors_per_cluster from candidate k on
RECURSIVE select_from(_, _)
select_from(total_sectors, k) ==
    IF k > Len(SPC_CANDIDATES)
    THEN FatErr("unable to select sectors per cluster for FAT32")
    ELSE IF compute_fat_size(total_sectors, SPC_CANDIDATES[k]).status # "ok"
    THEN compute_fat_size(total_sectors, SPC_CANDIDATES[k])
    ELSE IF in_fat32_range(fat_clusters(total_sectors, SPC_CANDIDATES[k],
                               compute_fat_size(total_sectors, SPC_CANDIDATES[k]).val))
    THEN FatOk(SPC_CANDIDATES[k])
    ELSE select_from(total_sectors, k + 1)

select_sectors_per_cluster(total_sectors) == select_from(total_sectors, 1)

Fat32Layout(total_sectors, sectors_per_cluster, sectors_per_fat, root_dir_sector) ==
    [total_sectors |-> total_sectors, sectors_per_cluster |-> sectors_per_cluster,
     sectors_per_fat |-> sectors_per_fat, root_dir_sector |-> root_dir_sector]

\* the layout and the sectors written, once the geometry is known
fat32_write(total_sectors, spc, spf, can_open) ==
    LET data_start == RESERVED_SECTORS + NUM_FATS * spf
        root_dir_sector == data_start + (ROOT_CLUSTER - 2) * spc
    IN IF ~can_open THEN [status |-> "err", err |-> "open", written |-> <<>>]
       ELSE [status |-> "ok", err |-> "",
             val |-> Fat32Layout(total_sectors, spc, spf, root_dir_sector),
             written |-> <<0, BACKUP_BOOT_SECTOR, FSINFO_SECTOR, BACKUP_BOOT_SECTOR + 1,
                           RESERVED_SECTORS, RESERVED_SECTORS + spf, root_dir_sector>>]

\* format_fat32(device_path, total_bytes, label) on a device that can or
\* cannot be opened.  total_bytes stays below 2^31 here, so the cast of the
\* sector count to u32 keeps its value.
format_fat32(total_bytes, can_open) ==
    LET total_sectors == total_bytes \div BYTES_PER_SECTOR
        spc == select_sectors_per_cluster(total_sectors)
        spf == compute_fat_size(total_sectors, spc.val)
    IN IF total_bytes < BYTES_PER_SECTOR * 1000
       THEN [status |-> "err", err |-> "device too small for FAT32", written |-> <<>>]
       ELSE IF total_bytes % BYTES_PER_SECTOR # 0
       THEN [status |-> "err", err |-> "device size must be multiple of 512 bytes",
             written |-> <<>>]
       ELSE IF spc.status # "ok"
       THEN [status |-> spc.status, err |-> spc.err, written |-> <<>>]
       ELSE IF spf.status # "ok"
       THEN [status |-> spf.status, err |-> spf.err, written |-> <<>>]
       ELSE fat32_write(total_sectors, spc.val, spf.val, can_open)

\* format_fat32 is called once on a device of some size
MaxFatExtra == 60
FatTotalBytes ==
    {BYTES_PER_SECTOR * s : s \in 1000..(1000 + MaxFatExtra)}
    \cup {BYTES_PER_SECTOR * s : s \in {999, 66580, 66581, 70000, 600000, 4000000}}
    \cup {BYTES_PER_SECTOR * 70000 + 1}

FatInit ==
    /\ fn_args \in FatTotalBytes \X BOOLEAN
    /\ fn_ret = None
    /\ GateIdle /\ StepIdle /\ RunIdle /\ UsbIdle /\ IoIdle /\ MountIdle /\ PatchIdle /\ PackIdle /\ ReportIdle

CallFormatFat32 ==
    /\ ~fn_ret.some
    /\ fn_ret' = Some(format_fat32(fn_args[1], fn_args[2]))
    /\ UNCHANGED <<fn_args, reportVars, packVars, patchVars, mountVars, ioVars, usbVars, gateVars, stepVars, runVars>>

FatNext == CallFormatFat32
SpecFat == FatInit /\ [][FatNext]_vars

\* the cluster count of a layout
layout_clusters(l) == fat_clusters(l.total_sectors, l.sectors_per_cluster, l.sectors_per_fat)

\* C16: for a total_bytes that is a multiple of 512 and at least 1000 * 512
\* (and a device that can be opened) format_fat32 returns a layout whose
\* sectors_per_cluster is the first of 1, 2, 4, .., 128 that gives between
\* 65525 and 0x0FFFFFF5 clusters, and so has at least 65525 clusters
FormatFat32Completes ==
    (/\ fn_ret.some /\ fn_args[2]
     /\ fn_args[1] % 512 = 0 /\ fn_args[1] >= 1000 * 512)
    => /\ fn_ret.val.status = "ok"
       /\ layout_clusters(fn_ret.val.val) >= 65525
       /\ layout_clusters(fn_ret.val.val) <= 268435445
       /\ \A k \in DOMAIN SPC_CANDIDATES :
            SPC_CANDIDATES[k] < fn_ret.val.val.sectors_per_cluster
            => ~in_fat32_range(fat_clusters(fn_ret.val.val.total_sectors, SPC_CANDIDATES[k],
                                   compute_fat_size(fn_ret.val.val.total_sectors,
                                                    SPC_CANDIDATES[k]).val))

\* format_fat32 always returns
FormatFat32Returns == fn_ret.some => fn_ret.val.status # "hang"

\* a layout that format_fat32 returns has a sectors_per_cluster that gives
\* between 65525 and 0x0FFFFFF5 clusters
ReturnedLayoutInRange ==
    (fn_ret.some /\ fn_ret.val.status = "ok") => in_fat32_range(layout_clusters(fn_ret.val.val))

----------------------------------------------------------------------------
\* C17: a write_image step with verify = true whose hash of the device after
\* the write differs from the hash of the source ends in failure: it never
\* returns a successful step result
WriteImageVerifyMismatchFails ==
    (/\ step_pc = "done" /\ sp.action = "unix_write_image" /\ sp.verify /\ ~sp.dry_run
     /\ step_result.report.some)
    => step_result.report.val.meta.verify_ok # Some(FALSE)

----------------------------------------------------------------------------
\* The legacy patch run again on the installer it has patched.
MaxPatchRuns == 2

\* a plist file: binary or XML, and the dictionary at its root (None when the
\* root is not a dictionary)
PlistFile(format, root) == [format |-> format, root |-> root]
\* Value::from_file, Value::to_file_xml
from_file(file) == file.root
to_file_xml(value) == PlistFile("xml", value)

PlistEmpty == [k \in {} |-> <<>>]
PlistPartly ==
    [k \in {"SupportedModels", "BoardIDs"} |->
        IF k = "BoardIDs" THEN <<"Mac-F22">> ELSE <<"iMac9,1", "MacPro5,1">>]
PlistTwice == [k \in {"SupportedModels"} |-> <<"iMac9,1", "iMac9,1">>]
PlistRoots == {None, Some(PlistEmpty), Some(PlistListed), Some(PlistPartly), Some(PlistTwice)}

PatchInit ==
    /\ patch_in \in {Some([plist |-> PlistFile(f, r), model |-> m, board_id |-> b,
                           dry_run |-> d, force |-> TRUE,
                           confirmation_token |-> t]) :
                        f \in {"binary", "xml"}, r \in PlistRoots,
                        m \in {None, Some("iMac9,1"), Some("MacPro5,1")},
                        b \in {None, Some("Mac-F22"), Some("iMac9,1")},
                        d \in BOOLEAN, t \in {None, Some(TokPHXx)}}
    /\ plist_file = patch_in.val.plist
    /\ patch_log = <<>>
    /\ FnIdle /\ ReportIdle /\ PackIdle /\ GateIdle /\ StepIdle /\ RunIdle /\ UsbIdle /\ IoIdle /\ MountIdle

\* run_legacy_patch on an installer app whose PlatformSupport.plist is
\* plist_file: the gate, the patch of the value read, the write in execute
\* mode, the report
ApplyLegacyPatch ==
    /\ patch_in.some /\ Len(patch_log) < MaxPatchRuns
    /\ \E fault \in {"none", "graph", "plist_read", "plist_write", "report"} :
       \E p \in {patch_in.val} :
       \E d \in {can_write_to_disk(SafetyContext(p.force, p.confirmation_token), FALSE)} :
       \E r \in {IF from_file(plist_file).some
                 THEN patch_plist(from_file(plist_file).val,
                                  IF p.model.some THEN p.model.val ELSE "UnknownModel",
                                  p.board_id)
                 ELSE [value |-> PlistEmpty, changed |-> FALSE]} :
          IF fault \in {"graph", "plist_read"} \/ d.kind = "Deny"
          THEN UNCHANGED <<plist_file, patch_log>>
          ELSE IF r.changed /\ ~p.dry_run /\ fault = "plist_write"
          THEN UNCHANGED <<plist_file, patch_log>>
          ELSE /\ plist_file' = IF r.changed /\ ~p.dry_run THEN to_file_xml(Some(r.value))
                                ELSE plist_file
               /\ patch_log' = IF fault = "report" THEN patch_log
                               ELSE Append(patch_log, plist_file')
    /\ UNCHANGED <<patch_in, fnVars, reportVars, packVars, mountVars, ioVars, usbVars, gateVars, stepVars, runVars>>

PatchNext == ApplyLegacyPatch
SpecPatch == PatchInit /\ [][PatchNext]_vars

\* C18: the legacy patch applied again in execute mode with the same model and
\* board id leaves the plist as the first application left it
LegacyPatchIdempotent ==
    (patch_in.some /\ ~patch_in.val.dry_run)
    => \A i \in DOMAIN patch_log : patch_log[i] = patch_log[1]

\* the patch was applied twice in execute mode and the first application
\* changed the plist
PatchedTwice ==
    /\ patch_in.some /\ ~patch_in.val.dry_run /\ Len(patch_log) = 2
    /\ patch_log[1] # patch_in.val.plist
    /\ patch_in.val.board_id.some

----------------------------------------------------------------------------
\* windows_impl::mount_iso and the drop of the PreparedSource it returns.
\* The 20 s of wait_for_new_drive_letter are MaxPolls rounds of 250 ms here.
MaxPolls == 3
DriveLetters == {"C", "D", "E"}
ISO_LETTER == "F"

MountInit ==
    /\ iso_pc = "start"
    /\ iso_letters \in SUBSET DriveLetters
    /\ iso_before = {} /\ iso_handle = "none" /\ iso_attached = FALSE /\ iso_polls = 0
    /\ FnIdle /\ ReportIdle /\ PackIdle /\ PatchIdle /\ GateIdle /\ StepIdle /\ RunIdle /\ UsbIdle /\ IoIdle

\* let before = logical_drive_letters(); let handle = open_virtual_disk(path)?
OpenVirtualDisk ==
    /\ iso_pc = "start"
    /\ iso_before' = iso_letters
    /\ \E ok \in BOOLEAN :
          /\ iso_handle' = IF ok THEN "open" ELSE "none"
          /\ iso_pc' = IF ok THEN "opened" ELSE "failed"
    /\ UNCHANGED <<iso_letters, iso_attached, iso_polls, fnVars, reportVars, packVars,
                   patchVars, ioVars, usbVars, gateVars, stepVars, runVars>>

\* attach_read_only(handle)?
AttachVirtualDisk ==
    /\ iso_pc = "opened"
    /\ \E ok \in BOOLEAN :
          /\ iso_attached' = ok
          /\ iso_pc' = IF ok THEN "waiting" ELSE "failed"
    /\ UNCHANGED <<iso_letters, iso_before, iso_handle, iso_polls, fnVars, reportVars,
                   packVars, patchVars, ioVars, usbVars, gateVars, stepVars, runVars>>

\* the system gives the attached ISO its drive letter
LetterAssigned ==
    /\ iso_attached /\ ISO_LETTER \notin iso_letters
    /\ iso_letters' = iso_letters \cup {ISO_LETTER}
    /\ UNCHANGED <<iso_pc, iso_before, iso_handle, iso_attached, iso_polls, fnVars,
                   reportVars, packVars, patchVars, ioVars, usbVars, gateVars, stepVars, runVars>>

\* one round of the loop of wait_for_new_drive_letter: a new letter ends
\* mount_iso with Ok(PreparedSource) that owns the IsoMount; else the timeout
\* ends it with the error; else it sleeps
PollDriveLetters ==
    /\ iso_pc = "waiting"
    /\ IF iso_letters \ iso_before # {}
       THEN iso_pc' = "mounted" /\ iso_polls' = iso_polls
       ELSE IF iso_polls >= MaxPolls
       THEN iso_pc' = "failed" /\ iso_polls' = iso_polls
       ELSE iso_pc' = "waiting" /\ iso_polls' = iso_polls + 1
    /\ UNCHANGED <<iso_letters, iso_before, iso_handle, iso_attached, fnVars, reportVars,
                   packVars, patchVars, ioVars, usbVars, gateVars, stepVars, runVars>>

\* the PreparedSource goes out of scope: Drop for IsoMount detaches the disk
\* and closes the handle, and the letter goes with it
DropIsoMount ==
    /\ iso_pc = "mounted"
    /\ iso_attached' = FALSE
    /\ iso_handle' = "closed"
    /\ iso_letters' = iso_letters \ {ISO_LETTER}
    /\ iso_pc' = "dropped"
    /\ UNCHANGED <<iso_before, iso_polls, fnVars, reportVars, packVars, patchVars, ioVars, usbVars, gateVars,
                   stepVars, runVars>>

MountNext ==
    OpenVirtualDisk \/ AttachVirtualDisk \/ LetterAssigned \/ PollDriveLetters \/ DropIsoMount
SpecMount == MountInit /\ [][MountNext]_vars

\* C19: on every way out of mount_iso and of the source it returned, the
\* attach failing and the wait for the drive letter timing out included, an
\* ISO that was attached is detached
IsoDetachedOnEveryExit == iso_pc \in {"failed", "dropped"} => ~iso_attached

\* a source that mount_iso returned is detached when it is dropped
IsoDetachedOnDrop == iso_pc = "dropped" => ~iso_attached /\ iso_handle = "closed"

----------------------------------------------------------------------------
\* what would undo a copy made to the target
UndoingOps == {"format", "partition", "erase_disk", "remove"}

----------------------------------------------------------------------------
\* compute_fat_size is called once for a sector count and a cluster size
FatSizeSectors == (1000..(1000 + MaxFatExtra)) \cup {66581, 70000, 600000, 4000000}

FatSizeInit ==
    /\ fn_args \in FatSizeSectors \X {SPC_CANDIDATES[k] : k \in DOMAIN SPC_CANDIDATES}
    /\ fn_ret = None
    /\ GateIdle /\ StepIdle /\ RunIdle /\ UsbIdle /\ IoIdle /\ MountIdle /\ PatchIdle /\ PackIdle /\ ReportIdle

CallComputeFatSize ==
    /\ ~fn_ret.some
    /\ fn_ret' = Some(compute_fat_size(fn_args[1], fn_args[2]))
    /\ UNCHANGED <<fn_args, reportVars, packVars, patchVars, mountVars, ioVars, usbVars, gateVars, stepVars,
                   runVars>>

FatSizeNext == CallComputeFatSize
SpecFatSize == FatSizeInit /\ [][FatSizeNext]_vars

\* C21: for every total_sectors >= 1000 and every sectors_per_cluster among
\* 1, 2, 4, .., 128 the iteration of compute_fat_size reaches a FAT size that
\* no longer changes, and the function returns
ComputeFatSizeTerminates ==
    (fn_ret.some /\ fn_args[1] >= 1000) => fn_ret.val.status # "hang"

----------------------------------------------------------------------------
\* crates/imaging: the chunk loops of hashing and image writing, one chunk
\* per step.  A source (device or image file) is described by the number of
\* bytes it holds; a read at an offset returns what lies between the offset
\* and the end of the source, at most the bytes asked for.
MaxIoTotal == 6
MaxIoChunk == 3

IoOk(bytes) == [ok |-> TRUE, err |-> "", bytes |-> bytes]
IoErr(msg) == [ok |-> FALSE, err |-> msg, bytes |-> 0]
Fed(chunk, bytes) == [index |-> chunk.index, size |-> chunk.size, bytes |-> bytes]
Progress(chunk, bytes, answer) == [chunk_index |-> chunk.index, bytes |-> bytes, answer |-> answer]

RECURSIVE SumFed(_)
SumFed(fed) == IF fed = <<>> THEN 0 ELSE fed[1].bytes + SumFed(Tail(fed))

\* what a read of to_read bytes at chunk.offset delivers in all
read_at(source_len, offset, to_read) ==
    LET avail == saturating_sub(source_len, offset)
    IN IF avail < to_read THEN avail ELSE to_read

\* plan.chunks.iter().take(limit)
take(chunks, max_chunks) ==
    IF max_chunks.some /\ max_chunks.val < Len(chunks)
    THEN SubSeq(chunks, 1, max_chunks.val) ELSE chunks

\* if !observer.on_progress(progress) { return Err(.. cancelled) }
observer_ignored(answer) == FALSE
observer_stops(answer) == ~answer

IoOps == {"hash_disk_readonly_physicaldrive", "hash_device_readonly", "write_image_to_device"}
IoIn(total_size, chunk_size, max_chunks, source_len, can_open) ==
    [total_size |-> total_size, chunk_size |-> chunk_size, max_chunks |-> max_chunks,
     source_len |-> source_len, can_open |-> can_open]

IoInit ==
    /\ io_op \in IoOps
    /\ io_in \in {Some(IoIn(t, c, m, s, o)) :
                    t \in 0..MaxIoTotal, c \in 0..MaxIoChunk, m \in {None, Some(1)},
                    s \in 0..MaxIoTotal, o \in BOOLEAN}
    /\ (io_op = "write_image_to_device" => io_in.val.max_chunks = None)
    /\ io_pc = "start" /\ io_plan = <<>> /\ io_fed = <<>> /\ io_calls = <<>>
    /\ io_written = 0 /\ io_ret = None
    /\ GateIdle /\ StepIdle /\ RunIdle /\ UsbIdle /\ FnIdle /\ MountIdle /\ PatchIdle /\ PackIdle
    /\ ReportIdle

IoRest == <<fnVars, reportVars, packVars, patchVars, mountVars, usbVars, gateVars, stepVars, runVars>>

\* the checks, the open and the plan that precede the loop
StartIo ==
    /\ io_pc = "start"
    /\ IF io_in.val.chunk_size = 0
       THEN /\ io_ret' = Some(IoErr("chunk_size must be greater than zero"))
            /\ io_pc' = "done" /\ UNCHANGED io_plan
       ELSE IF ~io_in.val.can_open
       THEN /\ io_ret' = Some(IoErr("open failed"))
            /\ io_pc' = "done" /\ UNCHANGED io_plan
       ELSE /\ io_plan' = take(make_chunk_plan(io_in.val.total_size, io_in.val.chunk_size).chunks,
                               io_in.val.max_chunks)
            /\ io_pc' = "loop" /\ UNCHANGED io_ret
    /\ UNCHANGED <<io_op, io_in, io_fed, io_calls, io_written, IoRest>>

\* one iteration of the loop of hash_disk_readonly_physicaldrive_with_progress
HashPhysicalDriveChunk ==
    /\ io_pc = "loop" /\ io_op = "hash_disk_readonly_physicaldrive" /\ io_plan # <<>>
    /\ \E ok_read, answer \in BOOLEAN :
        LET chunk == io_plan[1]
            read == read_at(io_in.val.source_len, chunk.offset, chunk.size)
        IN IF ~ok_read \/ read = 0
           THEN /\ io_ret' = Some(IoErr("ReadFile failed at chunk"))
                /\ io_pc' = "done"
                /\ UNCHANGED <<io_plan, io_fed, io_calls>>
           ELSE /\ io_fed' = Append(io_fed, Fed(chunk, read))
                /\ io_calls' = Append(io_calls, Progress(chunk, SumFed(io_fed) + read, answer))
                /\ IF observer_stops(answer)
                   THEN /\ io_ret' = Some(IoErr("hash operation cancelled"))
                        /\ io_pc' = "done" /\ UNCHANGED io_plan
                   ELSE /\ io_plan' = Tail(io_plan)
                        /\ UNCHANGED <<io_ret, io_pc>>
    /\ UNCHANGED <<io_op, io_in, io_written, IoRest>>

\* one iteration of the loop of hash_device_readonly: the inner loop reads
\* until the chunk is complete or a read returns nothing
HashDeviceChunk ==
    /\ io_pc = "loop" /\ io_op = "hash_device_readonly" /\ io_plan # <<>>
    /\ LET chunk == io_plan[1]
           read == read_at(io_in.val.source_len, chunk.offset, chunk.size)
       IN IF read < chunk.size
          THEN /\ io_ret' = Some(IoErr("unexpected EOF while hashing device"))
               /\ io_pc' = "done"
               /\ UNCHANGED <<io_plan, io_fed>>
          ELSE /\ io_fed' = Append(io_fed, Fed(chunk, read))
               /\ io_plan' = Tail(io_plan)
               /\ UNCHANGED <<io_ret, io_pc>>
    /\ UNCHANGED <<io_op, io_in, io_calls, io_written, IoRest>>

\* one iteration of the loop of write_image_to_device_with_progress: what the
\* inner loop read before the end of the image is already on the device
WriteImageChunk ==
    /\ io_pc = "loop" /\ io_op = "write_image_to_device" /\ io_plan # <<>>
    /\ \E answer \in BOOLEAN :
        LET chunk == io_plan[1]
            read == read_at(io_in.val.source_len, chunk.offset, chunk.size)
        IN /\ io_written' = io_written + read
           /\ IF read < chunk.size
              THEN /\ io_ret' = Some(IoErr("unexpected EOF while reading image"))
                   /\ io_pc' = "done"
                   /\ UNCHANGED <<io_plan, io_fed, io_calls>>
              ELSE /\ io_fed' = Append(io_fed, Fed(chunk, read))
                   /\ io_calls' = Append(io_calls, Progress(chunk, io_written + read, answer))
                   /\ IF observer_stops(answer)
                      THEN /\ io_ret' = Some(IoErr("write operation cancelled"))
                           /\ io_pc' = "done" /\ UNCHANGED io_plan
                      ELSE /\ io_plan' = Tail(io_plan)
                           /\ UNCHANGED <<io_ret, io_pc>>
    /\ UNCHANGED <<io_op, io_in, IoRest>>

\* the loop is over: the results are returned
FinishIo ==
    /\ io_pc = "loop" /\ io_plan = <<>>
    /\ io_ret' = Some(IoOk(IF io_op = "write_image_to_device" THEN io_written ELSE SumFed(io_fed)))
    /\ io_pc' = "done"
    /\ UNCHANGED <<io_op, io_in, io_plan, io_fed, io_calls, io_written, IoRest>>

IoNext == StartIo \/ HashPhysicalDriveChunk \/ HashDeviceChunk \/ WriteImageChunk \/ FinishIo
SpecIo == IoInit /\ [][IoNext]_vars

IoHashing == io_op \in {"hash_disk_readonly_physicaldrive", "hash_device_readonly"}

\* C22: on every platform each chunk hash of disk hashing is computed over
\* exactly chunk.size bytes of the planned chunk; a read that delivers fewer
\* bytes makes the operation fail, so no chunk hash over fewer bytes exists
\* and no result is returned for it
HashFeedsWholeChunks ==
    IoHashing => \A i \in DOMAIN io_fed : io_fed[i].bytes = io_fed[i].size

IoObserved == io_op \in {"hash_disk_readonly_physicaldrive", "write_image_to_device"}
IoCancelled ==
    /\ io_ret.some /\ ~io_ret.val.ok
    /\ io_ret.val.err \in {"hash operation cancelled", "write operation cancelled"}

\* C23: with a progress observer, on_progress is called once after each
\* processed chunk, with strictly increasing chunk index and non-decreasing
\* byte count; the call that answers false is the last one, the operation
\* ends with the cancelled error, and from then on no chunk is read or
\* written while the bytes already written stay as they are
ObserverCalledPerChunkAndObeyed ==
    /\ [](IoObserved =>
            /\ Len(io_calls) = Len(io_fed)
            /\ \A i \in DOMAIN io_calls :
                /\ io_calls[i].chunk_index = io_fed[i].index
                /\ i > 1 => /\ io_calls[i].chunk_index > io_calls[i - 1].chunk_index
                            /\ io_calls[i].bytes >= io_calls[i - 1].bytes
                /\ ~io_calls[i].answer => i = Len(io_calls) /\ IoCancelled)
    /\ [][/\ io_written' >= io_written
          /\ IoCancelled => io_fed' = io_fed /\ io_calls' = io_calls /\ io_written' = io_written]_vars

\* a write cancelled at its second chunk, with a third chunk still planned
WriteCancelledMidway ==
    /\ io_op = "write_image_to_device" /\ IoCancelled
    /\ Len(io_calls) = 2 /\ Len(io_plan) = 2 /\ io_written > 0

----------------------------------------------------------------------------
\* disk_id_from_device_path on its own, over whole-disk and partition paths
\* of the Linux (sd, nvme, mmcblk, vd) and macOS (disk) naming schemes
DEV == <<"/", "d", "e", "v", "/">>
N_sdb == <<"s", "d", "b">>
N_nvme0n1 == <<"n", "v", "m", "e", "0", "n", "1">>
N_disk2 == <<"d", "i", "s", "k", "2">>
DiskNames ==
    {N_sdb, N_nvme0n1, N_disk2, <<"s", "d", "a">>, <<"v", "d", "a">>,
     <<"n", "v", "m", "e", "1", "n", "2">>, <<"d", "i", "s", "k", "1", "0">>,
     <<"m", "m", "c", "b", "l", "k", "0">>}
PartSuffixes ==
    {<<>>, <<"1">>, <<"2">>, <<"p", "1">>, <<"p", "2">>, <<"s", "1">>, <<"s", "2">>}
DevicePaths == {DEV \o n \o s : n \in DiskNames, s \in PartSuffixes}

DiskIdInit ==
    /\ fn_args \in {<<p>> : p \in DevicePaths}
    /\ fn_ret = None
    /\ GateIdle /\ StepIdle /\ RunIdle /\ UsbIdle /\ IoIdle /\ MountIdle /\ PatchIdle /\ PackIdle
    /\ ReportIdle

CallDiskIdFromDevicePath ==
    /\ ~fn_ret.some
    /\ fn_ret' = Some(disk_id_from_device_path(fn_args[1]))
    /\ UNCHANGED <<fn_args, reportVars, packVars, patchVars, mountVars, ioVars, usbVars, gateVars,
                   stepVars, runVars>>

DiskIdNext == CallDiskIdFromDevicePath
SpecDiskId == DiskIdInit /\ [][DiskIdNext]_vars

\* C24: disk_id_from_device_path maps /dev/sdb and /dev/sdb1 to "sdb",
\* /dev/nvme0n1 and /dev/nvme0n1p2 to "nvme0n1", /dev/disk2 and /dev/disk2s1
\* to "disk2", the ids the device graph gives those disks
DiskIdOfListedPaths ==
    fn_ret.some =>
        /\ fn_args[1] \in {DEV \o N_sdb, DEV \o N_sdb \o <<"1">>} => fn_ret.val = Some(N_sdb)
        /\ fn_args[1] \in {DEV \o N_nvme0n1, DEV \o N_nvme0n1 \o <<"p", "2">>}
              => fn_ret.val = Some(N_nvme0n1)
        /\ fn_args[1] \in {DEV \o N_disk2, DEV \o N_disk2 \o <<"s", "1">>}
              => fn_ret.val = Some(N_disk2)

\* C25: every report bundle a workflow step writes carries in run.json a
\* "status" of "dry_run" or "completed", the bundles of the write_image and
\* disk_hash_report steps included
StepReportHasStatus ==
    last_step.report.some =>
        /\ "status" \in DOMAIN last_step.report.val.meta
        /\ last_step.report.val.meta.status \in {"dry_run", "completed"}

\* the same for the steps with a status in their meta: every one but
\* write_image and disk_hash_report
StatusFieldWhereWritten ==
    (/\ last_step.report.some
     /\ last_step.report.val.meta.workflow \notin {"unix-write-image", "disk-hash-report"}) =>
        /\ "status" \in DOMAIN last_step.report.val.meta
        /\ last_step.report.val.meta.status \in {"dry_run", "completed"}

----------------------------------------------------------------------------
\* The builders of the destructive actions on their own: each is handed its
\* required keys together with every way of giving or omitting "dry_run" and
\* "force".
build_macos_installer_params(value) ==
    LET source_path == require_string(value, "source_path")
        target_device == require_string(value, "target_device")
        errs == FirstErr(<<source_path.err, target_device.err>>)
    IN IF errs # NoErr THEN BuildErr(errs)
       ELSE Built([action |-> "macos_installer_usb",
                   source_path |-> source_path.val, target_device |-> target_device.val,
                   force |-> optional_bool(value, "force", FALSE),
                   confirmation_token |-> optional_string(value, "confirmation_token"),
                   dry_run |-> optional_bool(value, "dry_run", TRUE)])

Builders ==
    {"build_usb_params", "build_apply_params", "build_unix_usb_params",
     "build_unix_write_params", "build_unix_boot_params", "build_macos_installer_params",
     "build_stage_bootloader_params", "build_legacy_patch_params"}

build_params(builder, value) ==
    CASE builder = "build_usb_params" -> build_usb_params(value)
      [] builder = "build_apply_params" -> build_apply_params(value)
      [] builder = "build_unix_usb_params" -> build_unix_usb_params(value)
      [] builder = "build_unix_write_params" -> build_unix_write_params(value)
      [] builder = "build_unix_boot_params" -> build_unix_boot_params(value)
      [] builder = "build_macos_installer_params" -> build_macos_installer_params(value)
      [] builder = "build_stage_bootloader_params" -> build_stage_bootloader_params(value)
      [] builder = "build_legacy_patch_params" -> build_legacy_patch_params(value)

\* the keys each builder requires
RequiredKeys(builder) ==
    CASE builder = "build_usb_params" ->
            [target_disk_id |-> JChars(PD1), source_path |-> JStr("win_full")]
      [] builder = "build_apply_params" ->
            [source_path |-> JStr("install.wim"), image_index |-> JNum(1),
             target_dir |-> JChars(W_E)]
      [] builder = "build_unix_write_params" ->
            [source_image |-> JStr("image.img"), target_device |-> JChars(DEV_sdb)]
      [] builder = "build_macos_installer_params" ->
            [source_path |-> JStr("installer.app"), target_device |-> JChars(DEV_disk2)]
      [] builder = "build_legacy_patch_params" -> [source_path |-> JStr("installer.app")]
      [] OTHER -> [source_path |-> JStr("linux_grub"), target_mount |-> JChars(P_u)]

\* a flag as JSON can give it: a boolean, or a value that is not a boolean
FlagValues == {JBool(TRUE), JBool(FALSE), JStr("false"), JNum(0)}
FlagKeys ==
    {NoParams}
    \cup {[dry_run |-> d] : d \in FlagValues}
    \cup {[force |-> f] : f \in FlagValues}
    \cup {[dry_run |-> d, force |-> f] : d \in FlagValues, f \in FlagValues}

BuildInit ==
    /\ fn_args \in {<<b, WithKeys(RequiredKeys(b), k)>> : b \in Builders, k \in FlagKeys}
    /\ fn_ret = None
    /\ GateIdle /\ StepIdle /\ RunIdle /\ UsbIdle /\ IoIdle /\ MountIdle /\ PatchIdle /\ PackIdle
    /\ ReportIdle

CallBuildParams ==
    /\ ~fn_ret.some
    /\ fn_ret' = Some(build_params(fn_args[1], fn_args[2]))
    /\ UNCHANGED <<fn_args, reportVars, packVars, patchVars, mountVars, ioVars, usbVars, gateVars,
                   stepVars, runVars>>

BuildNext == CallBuildParams
SpecBuild == BuildInit /\ [][BuildNext]_vars

\* C26: for every destructive action, params that omit dry_run are built
\* with dry_run = true and params that omit force with force = false; built
\* params have dry_run = false only when the step's params hold the boolean
\* false under "dry_run"
BuildersDefaultToDryRun ==
    (fn_ret.some /\ fn_ret.val.ok) =>
        /\ "dry_run" \notin DOMAIN fn_args[2] => fn_ret.val.params.dry_run
        /\ "force" \notin DOMAIN fn_args[2] => ~fn_ret.val.params.force
        /\ ~fn_ret.val.params.dry_run => json_get(fn_args[2], "dry_run") = Some(JBool(FALSE))

\* the image writer's params built from a step that gives neither flag
WriteParamsBuiltWithoutFlags ==
    /\ fn_ret.some /\ fn_ret.val.ok
    /\ fn_args[1] = "build_unix_write_params"
    /\ DOMAIN fn_args[2] = {"source_image", "target_device"}
    /\ fn_ret.val.params.dry_run /\ ~fn_ret.val.params.force

----------------------------------------------------------------------------
\* The two matches on step.action, arm by arm in source order.  A match takes
\* the first arm whose pattern equals the action; 0 stands for the `other` arm.
VALIDATE_ARMS ==
    <<"windows_installer_usb", "windows_apply_image", "linux_installer_usb",
      "macos_installer_usb", "linux_write_image", "macos_write_image", "linux_boot_prep",
      "macos_boot_prep", "stage_bootloader", "macos_installer_usb", "macos_legacy_patch",
      "report_verify", "disk_hash_report">>
DISPATCH_ARMS ==
    <<"windows_installer_usb", "windows_apply_image", "linux_installer_usb",
      "macos_installer_usb", "linux_write_image", "macos_write_image", "linux_boot_prep",
      "macos_boot_prep", "macos_installer_usb", "stage_bootloader", "macos_legacy_patch",
      "report_verify", "disk_hash_report">>
\* the string keys each arm of validate_step requires
VALIDATE_KEYS ==
    <<{"target_disk_id", "source_path"}, {"source_path", "target_dir"},
      {"source_path", "target_mount"}, {"source_path", "target_mount"},
      {"source_image", "target_device"}, {"source_image", "target_device"},
      {"source_path", "target_mount"}, {"source_path", "target_mount"},
      {"source_path", "target_mount"}, {"source_path", "target_device"}, {"source_path"},
      {"path"}, {"disk_id"}>>
\* the handler each arm of run_workflow_definition calls
DISPATCH_CALLS ==
    <<"run_windows_installer_usb", "run_windows_apply_image", "run_unix_installer_usb",
      "run_unix_installer_usb", "run_unix_write_image", "run_unix_write_image",
      "run_unix_boot_prep", "run_unix_boot_prep", "run_macos_installer_usb",
      "run_stage_bootloader", "run_legacy_patch", "verify_report_bundle",
      "run_disk_hash_report">>

\* a match that took the last arm that fits
match_arm_last(arms, action) ==
    IF \E k \in DOMAIN arms : arms[k] = action
    THEN Max({k \in DOMAIN arms : arms[k] = action}) ELSE 0
match_arm(arms, action) ==
    IF \E k \in DOMAIN arms : arms[k] = action
    THEN Min({k \in DOMAIN arms : arms[k] = action}) ELSE 0

ArmActions == Range(VALIDATE_ARMS) \cup {"erase_everything"}
ArmParams ==
    {[source_path |-> JStr("mac_boot"), target_mount |-> JChars(P_Volumes_U)],
     [source_path |-> JStr("installer.app"), target_device |-> JChars(DEV_disk2)],
     [source_path |-> JStr("installer.app"), target_device |-> JChars(DEV_disk2),
      target_mount |-> JChars(P_Volumes_U)],
     [source_image |-> JStr("image.img"), target_device |-> JChars(DEV_disk2)],
     [path |-> JStr("/tmp/r"), disk_id |-> JChars(N_disk2)],
     NoParams}

ArmInit ==
    /\ fn_args \in {<<os, WorkflowStep(ID_a, a, p)>> :
                        os \in {"windows", "linux", "macos"}, a \in ArmActions, p \in ArmParams}
    /\ fn_ret = None
    /\ GateIdle /\ StepIdle /\ RunIdle /\ UsbIdle /\ IoIdle /\ MountIdle /\ PatchIdle /\ PackIdle
    /\ ReportIdle

\* the step is validated and the arm that would run it is looked up
CallMatchStep ==
    /\ ~fn_ret.some
    /\ fn_ret' = Some([validate_arm |-> match_arm(VALIDATE_ARMS, fn_args[2].action),
                       validation |-> validate_step(fn_args[2], fn_args[1]),
                       dispatch_arm |-> match_arm(DISPATCH_ARMS, fn_args[2].action),
                       handler |-> HandlerOf(fn_args[2].action)])
    /\ UNCHANGED <<fn_args, reportVars, packVars, patchVars, mountVars, ioVars, usbVars, gateVars,
                   stepVars, runVars>>

ArmNext == CallMatchStep
SpecArm == ArmInit /\ [][ArmNext]_vars

SecondMacosArmOfValidate == match_arm_last(VALIDATE_ARMS, "macos_installer_usb")
SecondMacosArmOfDispatch == match_arm_last(DISPATCH_ARMS, "macos_installer_usb")

\* C27: a "macos_installer_usb" step is validated and dispatched by the first
\* arm of that name, the copy-based installer that requires target_mount; the
\* second arm, which requires target_device and calls run_macos_installer_usb,
\* is taken for no step at all
SecondMacosArmNeverReached ==
    fn_ret.some =>
        /\ fn_ret.val.validate_arm # SecondMacosArmOfValidate
        /\ fn_ret.val.dispatch_arm # SecondMacosArmOfDispatch
        /\ (fn_ret.val.validate_arm > 0 /\ fn_ret.val.validation = NoErr) =>
                \A key \in VALIDATE_KEYS[fn_ret.val.validate_arm] :
                    require_string(fn_args[2].params, key).ok
        /\ fn_args[2].action = "macos_installer_usb" =>
            /\ VALIDATE_KEYS[fn_ret.val.validate_arm] = {"source_path", "target_mount"}
            /\ DISPATCH_CALLS[fn_ret.val.dispatch_arm] = "run_unix_installer_usb"
            /\ fn_ret.val.handler = "unix_installer_usb"
            /\ ~require_string(fn_args[2].params, "target_mount").ok
                    => fn_ret.val.validation # NoErr

\* a macos_installer_usb step written for the second arm, on macOS: it names a
\* target_device and no target_mount, and the first arm rejects it
DeviceInstallerStepRejected ==
    /\ fn_ret.some /\ fn_args[1] = "macos"
    /\ fn_args[2].action = "macos_installer_usb"
    /\ DOMAIN fn_args[2].params = {"source_path", "target_device"}
    /\ fn_ret.val.validation = WfErr("missing string field target_mount", <<>>)
    /\ DISPATCH_CALLS[SecondMacosArmOfDispatch] = "run_macos_installer_usb"

\* C28: run_workflow_definition validates the whole definition (schema
\* version, ids, actions, required params, host OS per action) before the
\* first step starts: a step has started only if every step of the definition
\* is valid, and a definition with an invalid step, even the last one, ends
\* with no step executed and no step report written
WholeDefinitionValidatedFirst ==
    /\ started # <<>> =>
            /\ Accepted
            /\ definition.schema_version = WORKFLOW_SCHEMA_VERSION
            /\ \A i \in DOMAIN definition.steps :
                    /\ trim(definition.steps[i].id) # <<>>
                    /\ validate_step(definition.steps[i], host_os) = NoErr
                    /\ \A j \in DOMAIN definition.steps :
                            definition.steps[j].id = definition.steps[i].id => j = i
    /\ Rejected =>
            /\ started = <<>> /\ results = <<>> /\ ~last_step.report.some
            /\ run_pc = "done" /\ run_err = validation.err

\* a definition whose first step is valid and whose last step is not, ended
\* by the validation with nothing run
InvalidLastStepStoppedRun ==
    /\ Rejected /\ run_pc = "done" /\ started = <<>>
    /\ Len(definition.steps) = 2
    /\ validate_step(definition.steps[1], host_os) = NoErr
    /\ validate_step(definition.steps[2], host_os)
            = WfErr("missing string field target_mount", <<>>)

----------------------------------------------------------------------------
\* format_fat32 on devices of up to 2^33 sectors.  The sector count
\* total_bytes / 512 is held as hi * 2^32 + lo and total_bytes as that count
\* times 512 plus rem; lo stays below 2^29, where none of the u32 sums and
\* products of the crate wraps.
DeviceSize(hi, lo, rem) == [hi |-> hi, lo |-> lo, rem |-> rem]

\* (total_bytes / 512) as u32
as_u32(sectors) == sectors.lo

\* total_bytes < 512 * 1000
below_1000_sectors(size) == size.hi = 0 /\ size.lo < 1000

Extent(first, count) == [first |-> first, count |-> count]
\* the sectors the write_sector calls of format_fat32 reach: the boot sector
\* and its backup, the two FSInfo sectors, both FATs, the root cluster and the
\* volume label
written_extents(l) ==
    <<Extent(0, 1), Extent(BACKUP_BOOT_SECTOR, 1), Extent(FSINFO_SECTOR, 1),
      Extent(BACKUP_BOOT_SECTOR + 1, 1),
      Extent(RESERVED_SECTORS, l.sectors_per_fat),
      Extent(RESERVED_SECTORS + l.sectors_per_fat, l.sectors_per_fat),
      Extent(l.root_dir_sector, l.sectors_per_cluster),
      Extent(l.root_dir_sector, 1)>>

format_fat32_u64(size, can_open) ==
    LET total_sectors == as_u32(size)
        spc == select_sectors_per_cluster(total_sectors)
        spf == compute_fat_size(total_sectors, spc.val)
    IN IF below_1000_sectors(size)
       THEN [status |-> "err", err |-> "device too small for FAT32", written |-> <<>>]
       ELSE IF size.rem # 0
       THEN [status |-> "err", err |-> "device size must be multiple of 512 bytes",
             written |-> <<>>]
       ELSE IF spc.status # "ok"
       THEN [status |-> spc.status, err |-> spc.err, written |-> <<>>]
       ELSE IF spf.status # "ok"
       THEN [status |-> spf.status, err |-> spf.err, written |-> <<>>]
       ELSE [fat32_write(total_sectors, spc.val, spf.val, can_open) EXCEPT
                !.written = IF can_open
                            THEN written_extents(Fat32Layout(total_sectors, spc.val, spf.val,
                                     RESERVED_SECTORS + NUM_FATS * spf.val))
                            ELSE <<>>]

WideSectors ==
    (66581..(66581 + MaxFatExtra))
    \cup {0, 999, 1000, 66580, 70000, 600000, 4000000, 16777216, 268435456, 500000000, 500000001}
WideSizes ==
    {DeviceSize(hi, lo, rem) : hi \in {0, 1}, lo \in WideSectors, rem \in {0, 1}}

FatWideInit ==
    /\ fn_args \in WideSizes \X BOOLEAN
    /\ fn_ret = None
    /\ GateIdle /\ StepIdle /\ RunIdle /\ UsbIdle /\ IoIdle /\ MountIdle /\ PatchIdle /\ PackIdle
    /\ ReportIdle

CallFormatFat32Wide ==
    /\ ~fn_ret.some
    /\ fn_ret' = Some(format_fat32_u64(fn_args[1], fn_args[2]))
    /\ UNCHANGED <<fn_args, reportVars, packVars, patchVars, mountVars, ioVars, usbVars, gateVars,
                   stepVars, runVars>>

FatWideNext == CallFormatFat32Wide
SpecFatWide == FatWideInit /\ [][FatWideNext]_vars

\* x <= total_bytes / 512 for the device of the call
WithinDevice(x) == fn_args[1].hi > 0 \/ x <= fn_args[1].lo

\* C29: whenever format_fat32 succeeds, 32 + 2 * sectors_per_fat +
\* sectors_per_cluster * clusters <= total_bytes / 512, sectors_per_fat * 128
\* >= clusters + 2, the root directory starts at sector 32 + 2 *
\* sectors_per_fat, and every sector written lies below total_bytes / 512,
\* also on a device whose sector count does not fit in 32 bits
LayoutFitsDevice ==
    (fn_ret.some /\ fn_ret.val.status = "ok") =>
        LET l == fn_ret.val.val
            clusters == layout_clusters(l)
        IN /\ WithinDevice(32 + 2 * l.sectors_per_fat + l.sectors_per_cluster * clusters)
           /\ l.sectors_per_fat * 128 >= clusters + 2
           /\ l.root_dir_sector = 32 + 2 * l.sectors_per_fat
           /\ \A k \in DOMAIN fn_ret.val.written :
                /\ fn_ret.val.written[k].count >= 1
                /\ WithinDevice(fn_ret.val.written[k].first + fn_ret.val.written[k].count)

\* a device of 2^32 + 70000 sectors formatted with the layout of 70000
FormattedBeyond32Bits ==
    /\ fn_ret.some /\ fn_ret.val.status = "ok"
    /\ fn_args[1] = DeviceSize(1, 70000, 0)
    /\ fn_ret.val.val.total_sectors = 70000
    /\ Len(fn_ret.val.written) = 8

----------------------------------------------------------------------------
\* host-windows prepare_usb_disk, with the system mounting volumes while it
\* runs.  The 15 s of wait_for_new_drive_letter are MaxPolls rounds of 300 ms.
LETTERS == <<"D", "E", "F", "G">>
TARGET_DISK == 1
OTHER_DISK == 2
Volume(letter, disk) == [letter |-> letter, disk |-> disk]

\* logical_drive_letters(): the letters in use, 'A'..='Z' order
logical_drive_letters(volumes) == {v.letter : v \in volumes}
FreeLetters(volumes) == Range(LETTERS) \ logical_drive_letters(volumes)

\* the scan of wait_for_new_drive_letter: the first letter, in the order of
\* logical_drive_letters, that is not in before, whatever disk it belongs to
first_new_letter(now, before) ==
    LET new == {k \in DOMAIN LETTERS : LETTERS[k] \in now \ before}
    IN IF new = {} THEN None ELSE Some(LETTERS[Min(new)])

UsbInit ==
    /\ usb_pc = "start"
    /\ usb_disk = TARGET_DISK
    /\ usb_volumes \in {{}, {Volume("D", TARGET_DISK)}, {Volume("D", OTHER_DISK)},
                        {Volume("E", TARGET_DISK), Volume("D", OTHER_DISK)}}
    /\ usb_before = {} /\ usb_polls = 0 /\ usb_letter = None
    /\ usb_formatted = {} /\ usb_ret = None
    /\ FnIdle /\ ReportIdle /\ PackIdle /\ PatchIdle /\ MountIdle /\ IoIdle
    /\ GateIdle /\ StepIdle /\ RunIdle

UsbRest ==
    <<fnVars, reportVars, packVars, patchVars, mountVars, ioVars, gateVars, stepVars, runVars>>

\* let before = logical_drive_letters()
SnapshotDriveLetters ==
    /\ usb_pc = "start"
    /\ usb_before' = logical_drive_letters(usb_volumes)
    /\ usb_pc' = "partition"
    /\ UNCHANGED <<usb_disk, usb_volumes, usb_polls, usb_letter, usb_formatted, usb_ret, UsbRest>>

\* create_single_gpt_partition(disk_number, disk_size, label)?: the old
\* volumes of the disk go with its old partition table
CreateSingleGptPartition ==
    /\ usb_pc = "partition"
    /\ \E ok \in BOOLEAN :
        IF ok
        THEN /\ usb_volumes' = {v \in usb_volumes : v.disk # usb_disk}
             /\ usb_pc' = "waiting" /\ UNCHANGED usb_ret
        ELSE /\ usb_ret' = Some([ok |-> FALSE, err |-> "partitioning failed", letter |-> ""])
             /\ usb_pc' = "done" /\ UNCHANGED usb_volumes
    /\ UNCHANGED <<usb_disk, usb_before, usb_polls, usb_letter, usb_formatted, UsbRest>>

\* the system mounts the new partition of the prepared disk
TargetVolumeMounted ==
    /\ usb_pc \in {"waiting", "format"}
    /\ ~\E v \in usb_volumes : v.disk = usb_disk
    /\ \E l \in FreeLetters(usb_volumes) : usb_volumes' = usb_volumes \cup {Volume(l, usb_disk)}
    /\ UNCHANGED <<usb_pc, usb_disk, usb_before, usb_polls, usb_letter, usb_formatted, usb_ret,
                   UsbRest>>

\* another disk is plugged in, or a volume of another disk is mounted
OtherVolumeMounted ==
    /\ usb_pc \in {"partition", "waiting", "format"}
    /\ Cardinality({v \in usb_volumes : v.disk = OTHER_DISK}) < 2
    /\ \E l \in FreeLetters(usb_volumes) : usb_volumes' = usb_volumes \cup {Volume(l, OTHER_DISK)}
    /\ UNCHANGED <<usb_pc, usb_disk, usb_before, usb_polls, usb_letter, usb_formatted, usb_ret,
                   UsbRest>>

\* one round of the loop of wait_for_new_drive_letter
PollNewDriveLetter ==
    /\ usb_pc = "waiting"
    /\ LET found == first_new_letter(logical_drive_letters(usb_volumes), usb_before)
       IN IF found.some
          THEN /\ usb_letter' = found /\ usb_pc' = "format"
               /\ UNCHANGED <<usb_polls, usb_ret>>
          ELSE IF usb_polls >= MaxPolls
          THEN /\ usb_ret' = Some([ok |-> FALSE, letter |-> "",
                                   err |-> "timed out waiting for new volume mount"])
               /\ usb_pc' = "done" /\ UNCHANGED <<usb_polls, usb_letter>>
          ELSE /\ usb_polls' = usb_polls + 1
               /\ UNCHANGED <<usb_pc, usb_letter, usb_ret>>
    /\ UNCHANGED <<usb_disk, usb_volumes, usb_before, usb_formatted, UsbRest>>

\* format_volume(letter, fs, label, true)?; Ok(letter)
FormatVolume ==
    /\ usb_pc = "format"
    /\ \E ok \in BOOLEAN :
        IF ok
        THEN /\ usb_formatted' = usb_formatted
                                 \cup {v \in usb_volumes : v.letter = usb_letter.val}
             /\ usb_ret' = Some([ok |-> TRUE, err |-> "", letter |-> usb_letter.val])
        ELSE /\ usb_ret' = Some([ok |-> FALSE, err |-> "format failed", letter |-> ""])
             /\ UNCHANGED usb_formatted
    /\ usb_pc' = "done"
    /\ UNCHANGED <<usb_disk, usb_volumes, usb_before, usb_polls, usb_letter, UsbRest>>

UsbNext ==
    \/ SnapshotDriveLetters \/ CreateSingleGptPartition \/ TargetVolumeMounted
    \/ OtherVolumeMounted \/ PollNewDriveLetter \/ FormatVolume
SpecUsb == UsbInit /\ [][UsbNext]_vars

\* C30: prepare_usb_disk formats, and returns the letter of, only the volume
\* of the disk it has just repartitioned; a volume of another disk that shows
\* up while it waits for the new drive letter is never formatted
OnlyPreparedDiskFormatted ==
    /\ \A v \in usb_formatted : v.disk = usb_disk
    /\ (usb_ret.some /\ usb_ret.val.ok) =>
            \A v \in usb_volumes : v.letter = usb_ret.val.letter => v.disk = usb_disk

====
